---- MODULE Spec2Model ----
(***************************************************************************)
(* Verification model of the company-prototype site's logic layer:         *)
(*   - src/i18n-config.ts, src/proxy.ts   locale routing + security headers *)
(*   - src/app/not-found.tsx              locale recovery from x-pathname   *)
(*   - src/lib/jobs-api.ts                job feed fetch / normalisation    *)
(* Strings are TLA+ strings; a character is a string of length 1.          *)
(* Korean syllables, which the module's lexer does not accept in string    *)
(* literals, are written as their decimal code point in braces, one        *)
(* "{NNNNN}" group per syllable; no case mapping touches these groups.     *)
(***************************************************************************)
EXTENDS Integers, Sequences, FiniteSets, TLC

(***************************************************************************)
(* JavaScript string primitives                                            *)
(***************************************************************************)
CharAt(s, i) == SubSeq(s, i, i)

\* String.prototype.startsWith
StartsWith(s, pre) == Len(pre) <= Len(s) /\ SubSeq(s, 1, Len(pre)) = pre

\* String.prototype.includes
Includes(s, sub) ==
  \E i \in 0..(Len(s) - Len(sub)) : SubSeq(s, i + 1, i + Len(sub)) = sub

LowerChars == "abcdefghijklmnopqrstuvwxyz"
UpperChars == "ABCDEFGHIJKLMNOPQRSTUVWXYZ"

\* the case mappings of the letters, as tables
LowerOf == [c \in {CharAt(UpperChars, i) : i \in 1..Len(UpperChars)} |->
              CharAt(LowerChars, CHOOSE i \in 1..Len(UpperChars) : CharAt(UpperChars, i) = c)]
UpperOf == [c \in {CharAt(LowerChars, i) : i \in 1..Len(LowerChars)} |->
              CharAt(UpperChars, CHOOSE i \in 1..Len(LowerChars) : CharAt(LowerChars, i) = c)]

LowerChar(c) == IF c \in DOMAIN LowerOf THEN LowerOf[c] ELSE c

UpperChar(c) == IF c \in DOMAIN UpperOf THEN UpperOf[c] ELSE c

\* String.prototype.toLowerCase: every character mapped, half by half
RECURSIVE ToLowerCase(_)
ToLowerCase(s) ==
  IF Len(s) <= 1 THEN LowerChar(s)
  ELSE ToLowerCase(SubSeq(s, 1, Len(s) \div 2))
       \o ToLowerCase(SubSeq(s, Len(s) \div 2 + 1, Len(s)))

\* String.prototype.toUpperCase: every character mapped, half by half
RECURSIVE ToUpperCase(_)
ToUpperCase(s) ==
  IF Len(s) <= 1 THEN UpperChar(s)
  ELSE ToUpperCase(SubSeq(s, 1, Len(s) \div 2))
       \o ToUpperCase(SubSeq(s, Len(s) \div 2 + 1, Len(s)))

\* the regular expression class \s, restricted to the blanks the inputs use
IsSpace(c) == c \in {" ", "\t", "\n"}

RECURSIVE TrimStart(_)
TrimStart(s) ==
  IF s # "" /\ IsSpace(CharAt(s, 1)) THEN TrimStart(Tail(s)) ELSE s

RECURSIVE TrimEnd(_)
TrimEnd(s) ==
  IF s # "" /\ IsSpace(CharAt(s, Len(s)))
  THEN TrimEnd(SubSeq(s, 1, Len(s) - 1)) ELSE s

\* String.prototype.trim
Trim(s) == TrimEnd(TrimStart(s))

\* index of the first blank of s, 0 when there is none
IndexOfSpace(s) ==
  IF \E i \in 1..Len(s) : IsSpace(CharAt(s, i))
  THEN CHOOSE i \in 1..Len(s) :
         IsSpace(CharAt(s, i)) /\ \A j \in 1..(i - 1) : ~IsSpace(CharAt(s, j))
  ELSE 0

\* index of the first occurrence of character c in s, 0 when there is none
IndexOfChar(s, c) ==
  IF \E i \in 1..Len(s) : CharAt(s, i) = c
  THEN CHOOSE i \in 1..Len(s) :
         CharAt(s, i) = c /\ \A j \in 1..(i - 1) : CharAt(s, j) # c
  ELSE 0

\* String.prototype.split on a one-character separator: a sequence of strings
RECURSIVE Split(_, _)
Split(s, c) ==
  LET k == IndexOfChar(s, c) IN
  IF k = 0 THEN <<s>>
  ELSE <<SubSeq(s, 1, k - 1)>> \o Split(SubSeq(s, k + 1, Len(s)), c)

\* Array.prototype.filter(Boolean) on strings: drops the empty ones
RECURSIVE FilterNonEmpty(_)
FilterNonEmpty(q) ==
  IF q = <<>> THEN <<>>
  ELSE IF Head(q) = "" THEN FilterNonEmpty(Tail(q))
       ELSE <<Head(q)>> \o FilterNonEmpty(Tail(q))

\* Array.prototype.includes
ArrayIncludes(q, x) == \E i \in 1..Len(q) : q[i] = x

(***************************************************************************)
(* src/i18n-config.ts                                                      *)
(***************************************************************************)
Locales == <<"ko", "en">>
DefaultLocale == "ko"

(***************************************************************************)
(* Accept-Language negotiation, as src/proxy.ts getLocale uses it:         *)
(* new Negotiator({headers}).languages(locales), then                      *)
(* matchLocale(languages, locales, i18n.defaultLocale).                    *)
(* Quality values are kept in thousandths; NaN is a value of its own.      *)
(***************************************************************************)
Digits == "0123456789"
IsDigit(c) == \E i \in 1..Len(Digits) : CharAt(Digits, i) = c
DigitVal(c) == (CHOOSE i \in 1..Len(Digits) : CharAt(Digits, i) = c) - 1

\* length of the longest prefix of s made of characters outside Stop
RECURSIVE SpanLen(_, _)
SpanLen(s, Stop) ==
  IF s = "" \/ CharAt(s, 1) \in Stop THEN 0 ELSE 1 + SpanLen(Tail(s), Stop)

RECURSIVE DigitRunLen(_)
DigitRunLen(s) ==
  IF s = "" \/ ~IsDigit(CharAt(s, 1)) THEN 0 ELSE 1 + DigitRunLen(Tail(s))

RECURSIVE DigitsToNat(_)
DigitsToNat(s) ==
  IF s = "" THEN 0
  ELSE 10 * DigitsToNat(SubSeq(s, 1, Len(s) - 1)) + DigitVal(CharAt(s, Len(s)))

NaN == [nan |-> TRUE, v |-> 0]
Num(n) == [nan |-> FALSE, v |-> n]

\* Each parsing step below is an operator of its own, taking what the
\* earlier steps found as parameters.

\* thousandths per unit of a fraction written with n digits (n <= 3)
FractionScale(n) == IF n = 0 THEN 1000 ELSE IF n = 1 THEN 100 ELSE IF n = 2 THEN 10 ELSE 1

ParseFloatValue(neg, int, frac) ==
  IF int = "" /\ frac = "" THEN NaN
  ELSE Num((IF neg THEN -1 ELSE 1)
           * (1000 * DigitsToNat(int) + FractionScale(Len(frac)) * DigitsToNat(frac)))

FractionDigits(s) == SubSeq(s, 1, IF DigitRunLen(s) > 3 THEN 3 ELSE DigitRunLen(s))

ParseFloatFraction(neg, int, rest) ==
  ParseFloatValue(neg, int,
                  IF StartsWith(rest, ".") THEN FractionDigits(Tail(rest)) ELSE "")

ParseFloatDigits(neg, body) ==
  ParseFloatFraction(neg, SubSeq(body, 1, DigitRunLen(body)),
                     SubSeq(body, DigitRunLen(body) + 1, Len(body)))

ParseFloatSigned(t) ==
  ParseFloatDigits(StartsWith(t, "-"),
                   IF StartsWith(t, "-") \/ StartsWith(t, "+") THEN Tail(t) ELSE t)

\* parseFloat on "<blanks>[+-]digits[.digits]<anything>", in thousandths
\* (fraction digits past the third are dropped); anything else, and
\* undefined, is NaN.  arg = <<>> stands for undefined.
ParseFloat(arg) ==
  IF arg = <<>> THEN NaN ELSE ParseFloatSigned(TrimStart(arg[1]))

\* var p = params[j].split('='); if (p[0] === 'q') q = parseFloat(p[1])
ParamQ(p, q) ==
  IF p[1] = "q" THEN ParseFloat(IF Len(p) >= 2 THEN <<p[2]>> ELSE <<>>) ELSE q

\* the q of "p1;p2;..." : the last parameter named exactly q decides
RECURSIVE ParamsQ(_, _)
ParamsQ(params, q) ==
  IF params = <<>> THEN q
  ELSE ParamsQ(Tail(params), ParamQ(Split(Head(params), "="), q))

Blanks == {" ", "\t", "\n"}

NoLanguage == [ok |-> FALSE, prefix |-> "", suffix |-> "", full |-> "",
               q |-> Num(0), i |-> 0]

\* match[3], the text after ";": <<>> when the group did not take part
LanguageOf(prefix, suffix, params, i) ==
  [ok     |-> TRUE,
   prefix |-> prefix,
   suffix |-> suffix,
   full   |-> IF suffix # "" THEN prefix \o "-" \o suffix ELSE prefix,
   q      |-> IF params # <<>> /\ params[1] # ""
              THEN ParamsQ(Split(params[1], ";"), Num(1000))
              ELSE Num(1000),
   i      |-> i]

\* \s*(?:;(.*))?$
ParseParams(prefix, suffix, rest, i) ==
  IF rest = "" THEN LanguageOf(prefix, suffix, <<>>, i)
  ELSE IF StartsWith(rest, ";") /\ ~Includes(rest, "\n")
       THEN LanguageOf(prefix, suffix, <<Tail(rest)>>, i)
       ELSE NoLanguage

\* (?:-([^\s;]+))?
ParseSuffix(prefix, rest, i) ==
  IF StartsWith(rest, "-")
  THEN IF SpanLen(Tail(rest), Blanks \cup {";"}) = 0 THEN NoLanguage
       ELSE ParseParams(prefix,
                        SubSeq(rest, 2, 1 + SpanLen(Tail(rest), Blanks \cup {";"})),
                        TrimStart(SubSeq(rest,
                                         2 + SpanLen(Tail(rest), Blanks \cup {";"}),
                                         Len(rest))),
                        i)
  ELSE ParseParams(prefix, "", TrimStart(rest), i)

\* ([^\s\-;]+)
ParsePrefix(s, i) ==
  IF SpanLen(s, Blanks \cup {"-", ";"}) = 0 THEN NoLanguage
  ELSE ParseSuffix(SubSeq(s, 1, SpanLen(s, Blanks \cup {"-", ";"})),
                   SubSeq(s, SpanLen(s, Blanks \cup {"-", ";"}) + 1, Len(s)), i)

\* negotiator parseLanguage:
\*   /^\s*([^\s\-;]+)(?:-([^\s;]+))?\s*(?:;(.*))?$/
\* ok = FALSE is the null result.
ParseLanguage(str, i) == ParsePrefix(TrimStart(str), i)

KeepLanguage(language) == IF language.ok THEN <<language>> ELSE <<>>

\* negotiator parseAcceptLanguage: the parsed entries, nulls dropped,
\* each keeping its index in the comma-separated header
RECURSIVE ParseEntries(_, _)
ParseEntries(parts, i) ==
  IF parts = <<>> THEN <<>>
  ELSE KeepLanguage(ParseLanguage(Trim(Head(parts)), i))
       \o ParseEntries(Tail(parts), i + 1)

ParseAcceptLanguage(accept) == ParseEntries(Split(accept, ","), 0)

NoSpec == [ok |-> FALSE, i |-> 0, o |-> -1, q |-> Num(0), s |-> 0]

\* the specificity bits of specify
Specificity(specFull, specPrefix, pFull, pPrefix) ==
  IF specFull = pFull THEN 4
  ELSE IF specPrefix = pFull THEN 2
  ELSE IF specFull = pPrefix THEN 1
  ELSE 0

SpecOf(spec, index, s) ==
  IF s = 0 /\ spec.full # "*" THEN NoSpec
  ELSE [ok |-> TRUE, i |-> index, o |-> spec.i, q |-> spec.q, s |-> s]

SpecifyParsed(p, spec, index) ==
  IF ~p.ok THEN NoSpec
  ELSE SpecOf(spec, index,
              Specificity(ToLowerCase(spec.full), ToLowerCase(spec.prefix),
                          ToLowerCase(p.full), ToLowerCase(p.prefix)))

\* negotiator specify: how a header entry matches a provided language
Specify(language, spec, index) ==
  SpecifyParsed(ParseLanguage(language, 0), spec, index)

\* (priority.s - spec.s || priority.q - spec.q || priority.o - spec.o) < 0
PriorityBelow(priority, spec) ==
  IF priority.s # spec.s THEN priority.s < spec.s
  ELSE IF ~priority.q.nan /\ ~spec.q.nan /\ priority.q.v # spec.q.v
       THEN priority.q.v < spec.q.v
       ELSE priority.o < spec.o

HigherPriority(priority, spec) ==
  IF spec.ok /\ PriorityBelow(priority, spec) THEN spec ELSE priority

\* negotiator getLanguagePriority
RECURSIVE FoldPriority(_, _, _, _)
FoldPriority(language, accepted, index, priority) ==
  IF accepted = <<>> THEN priority
  ELSE FoldPriority(language, Tail(accepted), index,
                    HigherPriority(priority, Specify(language, Head(accepted), index)))

GetLanguagePriority(language, accepted, index) ==
  FoldPriority(language, accepted, index, NoSpec)

\* negotiator isQuality: spec.q > 0 (false for NaN)
IsQuality(spec) == ~spec.q.nan /\ spec.q.v > 0

\* negotiator compareSpecs(a, b) < 0: a sorts before b
SpecBefore(a, b) ==
  IF a.q.v # b.q.v THEN b.q.v < a.q.v
  ELSE IF a.s # b.s THEN b.s < a.s
  ELSE IF a.o # b.o THEN a.o < b.o
  ELSE a.i < b.i

FirstSpec(S) == CHOOSE a \in S : \A b \in S \ {a} : SpecBefore(a, b)

\* Array.prototype.sort(compareSpecs) of a set of specs with distinct i
RECURSIVE SortSpecs(_)
SortSpecs(S) ==
  IF S = {} THEN <<>> ELSE <<FirstSpec(S)>> \o SortSpecs(S \ {FirstSpec(S)})

\* priorities.filter(isQuality)
QualitySpecs(accepts, provided) ==
  {sp \in {GetLanguagePriority(provided[k], accepts, k - 1) : k \in 1..Len(provided)} :
     IsQuality(sp)}

\* .map(priority => provided[priorities.indexOf(priority)])
ProvidedOf(sorted, provided) ==
  [k \in 1..Len(sorted) |-> provided[sorted[k].i + 1]]

\* negotiator preferredLanguages(accept, provided); accept = <<>> stands
\* for a request without the header (RFC 2616 sec 14.4: no header = *)
PreferredLanguages(accept, provided) ==
  ProvidedOf(SortSpecs(QualitySpecs(
               ParseAcceptLanguage(IF accept = <<>> THEN "*" ELSE accept[1]),
               provided)),
             provided)

\* last index of "-" in s, 0 when there is none
LastDash(s) ==
  IF \E i \in 1..Len(s) : CharAt(s, i) = "-"
  THEN CHOOSE i \in 1..Len(s) :
         CharAt(s, i) = "-" /\ \A j \in (i + 1)..Len(s) : CharAt(s, j) # "-"
  ELSE 0

\* intl-localematcher BestAvailableLocale: the tag, then its truncations
RECURSIVE BestAvailableLocale(_, _)
BestAvailableLocale(available, locale) ==
  IF ArrayIncludes(available, locale) THEN <<locale>>
  ELSE IF LastDash(locale) = 0 THEN <<>>
  ELSE BestAvailableLocale(available, SubSeq(locale, 1, LastDash(locale) - 1))

IsLetter(c) ==
  \E i \in 1..Len(LowerChars) : CharAt(LowerChars, i) = c \/ CharAt(UpperChars, i) = c

\* Intl.getCanonicalLocales accepts a tag only when it is structurally
\* valid; modelled as: subtags of letters and digits separated by single
\* "-", the first one 2 to 8 letters
IsStructurallyValidTag(tag) ==
  /\ \A k \in 1..Len(Split(tag, "-")) :
       /\ Split(tag, "-")[k] # ""
       /\ \A i \in 1..Len(Split(tag, "-")[k]) :
            IsLetter(CharAt(Split(tag, "-")[k], i)) \/ IsDigit(CharAt(Split(tag, "-")[k], i))
  /\ Len(Split(tag, "-")[1]) \in 2..8
  /\ \A i \in 1..Len(Split(tag, "-")[1]) : IsLetter(CharAt(Split(tag, "-")[1], i))

\* the first requested locale that has an available match, else the default
RECURSIVE LookupLocale(_, _, _)
LookupLocale(requested, available, defaultLocale) ==
  IF requested = <<>> THEN defaultLocale
  ELSE IF BestAvailableLocale(available, Head(requested)) # <<>>
       THEN BestAvailableLocale(available, Head(requested))[1]
       ELSE LookupLocale(Tail(requested), available, defaultLocale)

\* intl-localematcher match(requested, available, defaultLocale): throws a
\* RangeError (threw = TRUE) when a requested tag cannot be canonicalized
MatchLocale(requested, available, defaultLocale) ==
  IF \E k \in 1..Len(requested) : ~IsStructurallyValidTag(requested[k])
  THEN [threw |-> TRUE, locale |-> ""]
  ELSE [threw |-> FALSE, locale |-> LookupLocale(requested, available, defaultLocale)]

\* variant: Negotiator.languages() called without the supported list, so the
\* header's own tags (wildcard included) go to matchLocale
RECURSIVE QualityTags(_)
QualityTags(entries) ==
  IF entries = <<>> THEN <<>>
  ELSE (IF IsQuality(Head(entries)) THEN <<Head(entries).full>> ELSE <<>>)
       \o QualityTags(Tail(entries))

GetLocale_HeaderTags(acceptLanguage) ==
  MatchLocale(QualityTags(ParseAcceptLanguage(
                IF acceptLanguage = <<>> THEN "*" ELSE acceptLanguage[1])),
              Locales, DefaultLocale)

\* src/proxy.ts getLocale; acceptLanguage is the request's Accept-Language
\* header, <<>> when the request carries none
GetLocale(acceptLanguage) ==
  MatchLocale(PreferredLanguages(acceptLanguage, Locales), Locales, DefaultLocale)

(***************************************************************************)
(* src/lib/jobs-api.ts                                                     *)
(* A value that may be undefined is <<v>>, or <<>> for undefined.          *)
(***************************************************************************)
Undefined == <<>>
Some(v) == <<v>>

\* a || b on optional strings: undefined and "" are falsy
OrElse(a, b) == IF a = Undefined \/ a = Some("") THEN b ELSE a

\* `${x}` for an optional string
Template(x) == IF x = Undefined THEN "undefined" ELSE x[1]

SyllableSeoul == "{49436}{50872}"
SyllableSeongnam == "{49457}{45224}"
SyllablePangyo == "{54032}{44368}"
SyllableBusan == "{48512}{49328}"
SyllableSenior == "{49884}{45768}{50612}"
SyllableYear == "{45380}"
SyllableMiddle == "{48120}{46308}"
SyllableJunior == "{51452}{45768}{50612}"
SyllableNewcomer == "{49888}{51077}"

\* departmentMap of transformJob
DepartmentMap ==
  ("ENGINEERING" :> "engineering") @@ ("AI" :> "ai") @@ ("AI/ML" :> "ai")
  @@ ("AIML" :> "ai") @@ ("PRODUCT" :> "product") @@ ("DESIGN" :> "design")
  @@ ("BUSINESS" :> "business") @@ ("OPERATIONS" :> "operations")
  @@ ("SALES" :> "business") @@ ("MARKETING" :> "business")

\* variant: the ai keywords tried before the engineering keywords
DepartmentByKeyword_AiFirst(departmentUpper) ==
  IF \/ Includes(departmentUpper, "AI")
     \/ Includes(departmentUpper, "ML")
     \/ Includes(departmentUpper, "MACHINE LEARNING") THEN "ai"
  ELSE IF \/ Includes(departmentUpper, "ENGINEERING")
          \/ Includes(departmentUpper, "SOFTWARE")
          \/ Includes(departmentUpper, "DEVELOPER") THEN "engineering"
  ELSE IF Includes(departmentUpper, "PRODUCT") THEN "product"
  ELSE IF \/ Includes(departmentUpper, "DESIGN")
          \/ Includes(departmentUpper, "UX")
          \/ Includes(departmentUpper, "UI") THEN "design"
  ELSE IF \/ Includes(departmentUpper, "BUSINESS")
          \/ Includes(departmentUpper, "SALES")
          \/ Includes(departmentUpper, "MARKETING") THEN "business"
  ELSE "engineering"

\* the partial matching of transformJob, taken when the table has no entry
DepartmentByKeyword(departmentUpper) ==
  IF \/ Includes(departmentUpper, "ENGINEERING")
     \/ Includes(departmentUpper, "SOFTWARE")
     \/ Includes(departmentUpper, "DEVELOPER") THEN "engineering"
  ELSE IF \/ Includes(departmentUpper, "AI")
          \/ Includes(departmentUpper, "ML")
          \/ Includes(departmentUpper, "MACHINE LEARNING") THEN "ai"
  ELSE IF Includes(departmentUpper, "PRODUCT") THEN "product"
  ELSE IF \/ Includes(departmentUpper, "DESIGN")
          \/ Includes(departmentUpper, "UX")
          \/ Includes(departmentUpper, "UI") THEN "design"
  ELSE IF \/ Includes(departmentUpper, "BUSINESS")
          \/ Includes(departmentUpper, "SALES")
          \/ Includes(departmentUpper, "MARKETING") THEN "business"
  ELSE "engineering"

\* departmentMap[departmentUpper], else the partial matching
NormalizeDepartment(departmentUpper) ==
  IF departmentUpper \in DOMAIN DepartmentMap
  THEN DepartmentMap[departmentUpper]
  ELSE DepartmentByKeyword(departmentUpper)

\* variant: the Busan names tried before the Seoul names
LocationByKeyword_BusanFirst(locationLower) ==
  IF \/ Includes(locationLower, "busan")
     \/ Includes(locationLower, SyllableBusan) THEN "busan"
  ELSE IF \/ Includes(locationLower, "seoul")
          \/ Includes(locationLower, SyllableSeoul)
          \/ Includes(locationLower, SyllableSeongnam)
          \/ Includes(locationLower, "seongnam")
          \/ Includes(locationLower, SyllablePangyo)
          \/ Includes(locationLower, "pangyo") THEN "seoul"
  ELSE IF Includes(locationLower, "hybrid") THEN "hybrid"
  ELSE "seoul"

\* the branches of parseLocation after the isRemote test
LocationByKeyword(locationLower) ==
  IF \/ Includes(locationLower, "seoul")
     \/ Includes(locationLower, SyllableSeoul)
     \/ Includes(locationLower, SyllableSeongnam)
     \/ Includes(locationLower, "seongnam")
     \/ Includes(locationLower, SyllablePangyo)
     \/ Includes(locationLower, "pangyo") THEN "seoul"
  ELSE IF \/ Includes(locationLower, "busan")
          \/ Includes(locationLower, SyllableBusan) THEN "busan"
  ELSE IF Includes(locationLower, "hybrid") THEN "hybrid"
  ELSE "seoul"

\* variant: parseLocation without its isRemote test
ParseLocation_NoRemoteTest(location, isRemote) ==
  IF location = Undefined THEN [threw |-> TRUE, value |-> ""]
  ELSE [threw |-> FALSE, value |-> LocationByKeyword(ToLowerCase(location[1]))]

\* parseLocation(location, isRemote); location.toLowerCase() on an
\* undefined location is a TypeError (threw = TRUE)
ParseLocation(location, isRemote) ==
  IF isRemote THEN [threw |-> FALSE, value |-> "remote"]
  ELSE IF location = Undefined THEN [threw |-> TRUE, value |-> ""]
  ELSE [threw |-> FALSE, value |-> LocationByKeyword(ToLowerCase(location[1]))]

\* typeMap of transformJob
TypeMap ==
  ("FullTime" :> "fullTime") @@ ("Contract" :> "contract")
  @@ ("Intern" :> "intern") @@ ("PartTime" :> "contract")

\* typeMap is an object literal: a key it does not own is looked up on
\* Object.prototype, whose members are functions or objects (truthy)
ObjectPrototypeKeys ==
  {"constructor", "toString", "toLocaleString", "valueOf", "hasOwnProperty",
   "isPrototypeOf", "propertyIsEnumerable", "__proto__", "__defineGetter__",
   "__defineSetter__", "__lookupGetter__", "__lookupSetter__"}

\* typeMap[ashbyJob.employmentType] || "fullTime"
EmploymentType(employmentType) ==
  IF Template(employmentType) \in DOMAIN TypeMap
  THEN TypeMap[Template(employmentType)]
  ELSE IF Template(employmentType) \in ObjectPrototypeKeys
       THEN "[inherited " \o Template(employmentType) \o "]"
       ELSE "fullTime"

\* variant: the mid keywords tested before the senior ones
ExperienceByKeyword_MidFirst(text) ==
  IF \/ Includes(text, "mid") \/ Includes(text, SyllableMiddle)
     \/ Includes(text, "3-5" \o SyllableYear) THEN "mid"
  ELSE IF \/ Includes(text, "senior") \/ Includes(text, SyllableSenior)
          \/ Includes(text, "5" \o SyllableYear) \/ Includes(text, "5+") THEN "senior"
  ELSE IF \/ Includes(text, "junior") \/ Includes(text, SyllableJunior)
          \/ Includes(text, "1-3" \o SyllableYear) THEN "junior"
  ELSE IF \/ Includes(text, "entry") \/ Includes(text, SyllableNewcomer)
          \/ Includes(text, "new grad") THEN "entry"
  ELSE ""

\* the keyword scan of inferExperience over the lowered text; "" when no
\* keyword group matches
ExperienceByKeyword(text) ==
  IF \/ Includes(text, "senior") \/ Includes(text, SyllableSenior)
     \/ Includes(text, "5" \o SyllableYear) \/ Includes(text, "5+") THEN "senior"
  ELSE IF \/ Includes(text, "mid") \/ Includes(text, SyllableMiddle)
          \/ Includes(text, "3-5" \o SyllableYear) THEN "mid"
  ELSE IF \/ Includes(text, "junior") \/ Includes(text, SyllableJunior)
          \/ Includes(text, "1-3" \o SyllableYear) THEN "junior"
  ELSE IF \/ Includes(text, "entry") \/ Includes(text, SyllableNewcomer)
          \/ Includes(text, "new grad") THEN "entry"
  ELSE ""

\* variant: the two outcomes of the last line exchanged
ExperienceFallback_Exchanged(title) ==
  IF title = Undefined THEN [threw |-> TRUE, value |-> ""]
  ELSE [threw |-> FALSE,
        value |-> IF Includes(ToLowerCase(title[1]), "senior") THEN "mid" ELSE "senior"]

\* the last line of inferExperience; title.toLowerCase() on an undefined
\* title is a TypeError
ExperienceFallback(title) ==
  IF title = Undefined THEN [threw |-> TRUE, value |-> ""]
  ELSE [threw |-> FALSE,
        value |-> IF Includes(ToLowerCase(title[1]), "senior") THEN "senior" ELSE "mid"]

ExperienceOr(found, title) ==
  IF found # "" THEN [threw |-> FALSE, value |-> found] ELSE ExperienceFallback(title)

\* inferExperience(title, description)
InferExperience(title, description) ==
  ExperienceOr(ExperienceByKeyword(
                 ToLowerCase(Template(title) \o " " \o Template(description))),
               title)

MaxDescriptionLength == 200

\* s from its first "<" on, "" when it has none
FromFirstOpen(s) ==
  IF IndexOfChar(s, "<") = 0 THEN "" ELSE SubSeq(s, IndexOfChar(s, "<"), Len(s))

\* description.replace(/<[^>]*>/g, " "): a match runs from a "<" to the
\* first ">" after it; a "<" with no ">" after it is left alone, and so is
\* everything behind it
RECURSIVE StripTags(_)
StripTags(s) ==
  IF IndexOfChar(FromFirstOpen(s), ">") = 0 THEN s
  ELSE SubSeq(s, 1, IndexOfChar(s, "<") - 1) \o " "
       \o StripTags(SubSeq(FromFirstOpen(s),
                           IndexOfChar(FromFirstOpen(s), ">") + 1,
                           Len(FromFirstOpen(s))))

\* text.replace(/\s+/g, " "): every run of blanks becomes one space
RECURSIVE CollapseSpaces(_)
CollapseSpaces(s) ==
  IF IndexOfSpace(s) = 0 THEN s
  ELSE SubSeq(s, 1, IndexOfSpace(s) - 1) \o " "
       \o CollapseSpaces(TrimStart(SubSeq(s, IndexOfSpace(s), Len(s))))

\* if (text.length > 200) text = text.substring(0, 200) + "..."
Truncate(text) ==
  IF Len(text) > MaxDescriptionLength
  THEN SubSeq(text, 1, MaxDescriptionLength) \o "..."
  ELSE text

\* extractDescription(description)
ExtractDescription(description) ==
  IF description = Undefined \/ description = Some("") THEN ""
  ELSE Truncate(Trim(CollapseSpaces(StripTags(description[1]))))

JobThrew == [threw |-> TRUE]

\* the object transformJob returns
JobOf(ashbyJob, location, experience) ==
  [threw |-> FALSE,
   job |-> [id                 |-> ashbyJob.id,
            title              |-> ashbyJob.title,
            department         |-> NormalizeDepartment(
                                     Trim(ToUpperCase(ashbyJob.department[1]))),
            originalDepartment |-> ashbyJob.department,
            experience         |-> experience,
            location           |-> location,
            originalLocation   |-> ashbyJob.location,
            type               |-> EmploymentType(ashbyJob.employmentType),
            workType           |-> IF ashbyJob.isRemote THEN "remote" ELSE "hybrid",
            description        |-> ExtractDescription(
                                     OrElse(ashbyJob.descriptionPlain,
                                            ashbyJob.descriptionHtml)),
            jobUrl             |-> ashbyJob.jobUrl,
            applyUrl           |-> ashbyJob.applyUrl,
            team               |-> ashbyJob.team,
            publishedAt        |-> ashbyJob.publishedAt]]

TransformWith(ashbyJob, location, experience) ==
  IF location.threw \/ experience.threw THEN JobThrew
  ELSE JobOf(ashbyJob, location.value, experience.value)

\* transformJob(ashbyJob); ashbyJob.department.toUpperCase() on an undefined
\* department is a TypeError
TransformJob(ashbyJob) ==
  IF ashbyJob.department = Undefined THEN JobThrew
  ELSE TransformWith(ashbyJob,
                     ParseLocation(ashbyJob.location, ashbyJob.isRemote),
                     InferExperience(ashbyJob.title, ashbyJob.descriptionPlain))

\* variant: the isListed filter left out
FilterListed_KeepAll(jobs) == jobs

\* data.jobs.filter((job) => job.isListed)
RECURSIVE FilterListed(_)
FilterListed(jobs) ==
  IF jobs = <<>> THEN <<>>
  ELSE (IF Head(jobs).isListed THEN <<Head(jobs)>> ELSE <<>>)
       \o FilterListed(Tail(jobs))

\* variant: a posting whose transform throws is left out, the others kept
RECURSIVE MapTransform_SkipThrowing(_)
MapTransform_SkipThrowing(jobs) ==
  IF jobs = <<>> THEN [threw |-> FALSE, value |-> <<>>]
  ELSE [threw |-> FALSE,
        value |-> (IF TransformJob(Head(jobs)).threw THEN <<>>
                   ELSE <<TransformJob(Head(jobs)).job>>)
                  \o MapTransform_SkipThrowing(Tail(jobs)).value]

\* .map((job) => transformJob(job)): the first throw ends the whole map
RECURSIVE MapTransform(_)
MapTransform(jobs) ==
  IF jobs = <<>> THEN [threw |-> FALSE, value |-> <<>>]
  ELSE IF TransformJob(Head(jobs)).threw \/ MapTransform(Tail(jobs)).threw
       THEN [threw |-> TRUE, value |-> <<>>]
       ELSE [threw |-> FALSE,
             value |-> <<TransformJob(Head(jobs)).job>> \o MapTransform(Tail(jobs)).value]

Thrown == [threw |-> TRUE, value |-> <<>>]

\* the try block of fetchJobs on what the upstream call produced:
\*   kind "network": fetch rejects;  kind "http": a response with a status
\*   and a body, the body being "text" (no JSON), "object" (JSON without a
\*   jobs member), "scalar" (jobs is not an array) or "list" (jobs array)
FetchJobsTry(upstream) ==
  IF upstream.kind = "network" THEN Thrown
  ELSE IF ~(upstream.status \in 200..299) THEN Thrown
  ELSE IF upstream.body = "text" THEN Thrown
  ELSE IF upstream.body \in {"object", "scalar"} THEN Thrown
  ELSE MapTransform(FilterListed(upstream.jobs))

\* variant: no catch around the body, the rejection reaches the caller
CatchAll_Rethrow(attempt) ==
  IF attempt.threw THEN [state |-> "threw", jobs |-> <<>>]
  ELSE [state |-> "returned", jobs |-> attempt.value]

\* try { ... } catch (error) { return [] }
CatchAll(attempt) ==
  IF attempt.threw THEN [state |-> "returned", jobs |-> <<>>]
  ELSE [state |-> "returned", jobs |-> attempt.value]

\* fetchJobs(): what the returned promise settles with
FetchJobsResult(upstream) == CatchAll(FetchJobsTry(upstream))

(***************************************************************************)
(* State                                                                   *)
(***************************************************************************)
VARIABLES
  pc,          \* position of the request being served
  reqPath,     \* request.nextUrl.pathname
  reqAccept,   \* Accept-Language header: <<value>>, or <<>> when absent
  resp,        \* the response the routing layer produced
  hops,        \* redirects the client has followed for this request
  nfHeaders,   \* the headers() the not-found page was rendered with
  nfLocale,    \* locale the not-found page rendered with, "" before
  feed,        \* what the job board's endpoint answers at this time
  fetched,     \* what the last fetchJobs() call settled with
  careers,     \* the careers page's client component: props, state, memos
  seo,         \* hreflang maps generated so far, and the configured base URL
  nav,         \* the last navigation of the LanguageSwitcher
  lazy,        \* a LazySection: its state, its observer, its effect
  calls        \* invocations of proxy and fetchJobs running side by side

vars == <<pc, reqPath, reqAccept, resp, hops, nfHeaders, nfLocale, feed, fetched,
          careers, seo,
                 nav, lazy, calls>>

(***************************************************************************)
(* Headers objects: names are case-insensitive, stored lower-cased         *)
(***************************************************************************)
NoHeaders == <<>>

HeadersSet(h, name, value) ==
  [n \in DOMAIN h \cup {ToLowerCase(name)} |->
     IF n = ToLowerCase(name) THEN value ELSE h[n]]

HeadersHas(h, name) == ToLowerCase(name) \in DOMAIN h

\* Headers.get: <<value>>, or <<>> for null
HeadersGet(h, name) ==
  IF HeadersHas(h, name) THEN <<h[ToLowerCase(name)]>> ELSE <<>>

(***************************************************************************)
(* URLs: the site's origin followed by the path (no query is modelled)     *)
(***************************************************************************)
Origin == "https://site"

RequestUrl(pathname) == Origin \o pathname

\* new URL(path, base).toString() for an absolute path: base's origin + path
NewUrl(path, base) == Origin \o path

UrlPathname(url) == SubSeq(url, Len(Origin) + 1, Len(url))

(***************************************************************************)
(* src/proxy.ts                                                            *)
(***************************************************************************)
\* config.matcher: "/((?!api|_next/static|_next/image|favicon.ico).*)"
\* "." of favicon.ico is the regular expression's any-character
MatchesAt(s, pattern) ==
  /\ Len(pattern) <= Len(s)
  /\ \A i \in 1..Len(pattern) :
       CharAt(pattern, i) = "." \/ CharAt(pattern, i) = CharAt(s, i)

MatcherExclusions == <<"api", "_next/static", "_next/image", "favicon.ico">>

\* variant: a matcher without the negative lookahead
MatcherMatches_NoExclusions(pathname) == StartsWith(pathname, "/")

MatcherMatches(pathname) ==
  /\ StartsWith(pathname, "/")
  /\ \A k \in 1..Len(MatcherExclusions) :
       ~MatchesAt(Tail(pathname), MatcherExclusions[k])

\* variant: the prefix test without the trailing "/"
PathnameIsMissingLocale_NoSlash(pathname) ==
  \A k \in 1..Len(Locales) :
    /\ ~StartsWith(pathname, "/" \o Locales[k])
    /\ pathname # "/" \o Locales[k]

\* i18n.locales.every(locale =>
\*   !pathname.startsWith(`/${locale}/`) && pathname !== `/${locale}`)
PathnameIsMissingLocale(pathname) ==
  \A k \in 1..Len(Locales) :
    /\ ~StartsWith(pathname, "/" \o Locales[k] \o "/")
    /\ pathname # "/" \o Locales[k]

\* variant: the two branches of the conditional swapped
RedirectPath_SwappedSlash(locale, pathname) ==
  "/" \o locale \o (IF StartsWith(pathname, "/") THEN "/" ELSE "") \o pathname

\* `/${locale}${pathname.startsWith("/") ? "" : "/"}${pathname}`
RedirectPath(locale, pathname) ==
  "/" \o locale \o (IF StartsWith(pathname, "/") THEN "" ELSE "/") \o pathname

\* variant: the redirect given the X-Frame-Options header as well
RedirectResponse_Framed(url) ==
  [kind |-> "redirect",
   headers |-> HeadersSet(HeadersSet(NoHeaders, "Location", url),
                          "X-Frame-Options", "DENY")]

\* NextResponse.redirect(url): a redirect whose Location is url
RedirectResponse(url) ==
  [kind |-> "redirect", headers |-> HeadersSet(NoHeaders, "Location", url)]

\* variant: the X-Content-Type-Options write left out
NextResponse_NoSniffHeader(pathname, url) ==
  LET h1 == HeadersSet(NoHeaders, "x-pathname", pathname)
      h2 == HeadersSet(h1, "x-url", url)
      h3 == HeadersSet(h2, "X-Frame-Options", "DENY")
      h5 == HeadersSet(h3, "Referrer-Policy", "strict-origin-when-cross-origin")
      h6 == HeadersSet(h5, "Permissions-Policy",
                       "camera=(), microphone=(), geolocation=()")
  IN [kind |-> "next", headers |-> h6]

\* NextResponse.next() followed by the header writes of proxy
NextResponse(pathname, url) ==
  LET h1 == HeadersSet(NoHeaders, "x-pathname", pathname)
      h2 == HeadersSet(h1, "x-url", url)
      h3 == HeadersSet(h2, "X-Frame-Options", "DENY")
      h4 == HeadersSet(h3, "X-Content-Type-Options", "nosniff")
      h5 == HeadersSet(h4, "Referrer-Policy", "strict-origin-when-cross-origin")
      h6 == HeadersSet(h5, "Permissions-Policy",
                       "camera=(), microphone=(), geolocation=()")
  IN [kind |-> "next", headers |-> h6]

\* an exception escaping proxy: the request fails
ErrorResponse == [kind |-> "error", headers |-> NoHeaders]

\* the redirect branch of proxy, given what getLocale returned
RedirectFor(detected, pathname) ==
  IF detected.threw THEN ErrorResponse
  ELSE RedirectResponse(NewUrl(RedirectPath(detected.locale, pathname),
                               RequestUrl(pathname)))

\* proxy(request)
ProxyResponse(pathname, acceptLanguage) ==
  IF PathnameIsMissingLocale(pathname)
  THEN RedirectFor(GetLocale(acceptLanguage), pathname)
  ELSE NextResponse(pathname, RequestUrl(pathname))

(***************************************************************************)
(* src/app/not-found.tsx                                                   *)
(***************************************************************************)
\* pathname.split("/").filter(Boolean), then the includes test
LocaleOfSegments(pathSegments) ==
  IF Len(pathSegments) > 0 /\ ArrayIncludes(Locales, pathSegments[1])
  THEN pathSegments[1]
  ELSE DefaultLocale

LocaleOfPathname(pathname) ==
  IF pathname # "" THEN LocaleOfSegments(FilterNonEmpty(Split(pathname, "/")))
  ELSE DefaultLocale

\* headersList.get("x-pathname") || ""
OrEmpty(got) == IF got = <<>> THEN "" ELSE got[1]

\* variant: the locale taken from the x-url header instead
NotFoundLocale_FromUrl(headersList) ==
  LocaleOfPathname(OrEmpty(HeadersGet(headersList, "x-url")))

\* NotFound's locale, from the headers() it is rendered with
NotFoundLocale(headersList) ==
  LocaleOfPathname(OrEmpty(HeadersGet(headersList, "x-pathname")))

(***************************************************************************)
(* Requests the model serves                                               *)
(***************************************************************************)
MaxPieces == 2
MaxTags == 3
MaxHops == 2

\* path fragments: locale segments, a same-letters different-case segment,
\* the reserved prefixes of the matcher and near misses of them
PathHeads == {"/", "/a", "/ko", "/en", "/KO", "/api", "/_next/static",
              "/_next/image", "/_next", "/favicon.ico", "/faviconxico"}
PathPieces == PathHeads \cup {"a"}

RECURSIVE PathsOf(_)
PathsOf(n) ==
  IF n <= 1 THEN PathHeads
  ELSE PathsOf(n - 1) \cup {p \o x : p \in PathsOf(n - 1), x \in PathPieces}

\* every pathname of a request begins with "/"
Paths == PathsOf(MaxPieces)

\* Accept-Language entries: weighted language ranges, a range for another
\* language, a weight that does not parse, an entry the grammar rejects
Tags == {"en;q=0.4", "en-US;q=0.9", "ko;q=0.5", "fr", "ko;q=x", "e n"}

RECURSIVE HeaderValuesOf(_)
HeaderValuesOf(n) ==
  IF n <= 1 THEN Tags
  ELSE HeaderValuesOf(n - 1)
       \cup {h \o ", " \o t : h \in HeaderValuesOf(n - 1), t \in Tags}

\* whole header values: empty, wildcards, zero weight, upper case, and the
\* two-entry headers browsers typically send
WholeHeaders == {"", "*", "fr, *;q=0.5", "en;q=0",
                 "EN-gb", "en;q=0.9, ko;q=0.8", "fr, en;q=0.5", "ko, en", "en, ko",
                 ";;", "en-US,en;q=0.9"}

AcceptHeaders ==
  {<<>>} \cup {<<v>> : v \in HeaderValuesOf(MaxTags) \cup WholeHeaders}

\* a few headers for the runs that vary the path
FewAcceptHeaders == {<<>>, <<"en-US,en;q=0.9">>, <<"fr;q=0.9, ko;q=0.8">>}
\* a few paths for the runs that vary the header
FewPaths == {"/", "/a", "/en/a", "/api/a"}

\* x-pathname values a client may send itself: another language, a locale
\* in upper case, the empty string
ClientPathnames == {"/fr/a", "/EN/a", ""}
ClientHeaders == {HeadersSet(NoHeaders, "x-pathname", v) : v \in ClientPathnames}

NoResponse == [kind |-> "none", headers |-> NoHeaders]
NoFeed == [kind |-> "none"]
NotFetched == [state |-> "pending", jobs |-> <<>>]
NotMounted == [phase |-> "none"]
NoAlternates == [canonical |-> "", languages |-> <<>>]
NoNav == [count |-> 0]
NotRendered == [phase |-> "none"]
NoCalls == <<>>
NoSeo == [env |-> Undefined, layout |-> NoAlternates, page |-> NoAlternates,
          sitemap |-> <<>>]

InitWith(paths, accepts) ==
  /\ pc = "request"
  /\ reqPath \in paths
  /\ reqAccept \in accepts
  /\ resp = NoResponse
  /\ hops = 0
  /\ nfHeaders = NoHeaders
  /\ nfLocale = ""
  /\ feed = NoFeed
  /\ fetched = NotFetched
  /\ careers = NotMounted
  /\ seo = NoSeo
  /\ nav = NoNav
  /\ lazy = NotRendered
  /\ calls = NoCalls

Init == InitWith(Paths, FewAcceptHeaders)
InitLocale == InitWith(FewPaths, AcceptHeaders)

(***************************************************************************)
(* Job feeds the model serves                                              *)
(***************************************************************************)
MaxJobs == 3

ListedPosting ==
  [id |-> "job-1", title |-> Some("Senior Engineer"), department |-> Some("AI/ML"),
   team |-> Some("Vision"), employmentType |-> Some("FullTime"),
   location |-> Some("Seoul"), isListed |-> TRUE, isRemote |-> FALSE,
   descriptionHtml |-> Some("<p>We build <b>robots</b>.</p>"),
   descriptionPlain |-> Some("We build robots."),
   jobUrl |-> "https://jobs/1", applyUrl |-> "https://jobs/1/apply",
   publishedAt |-> "2025-01-01"]

UnlistedPosting ==
  [ListedPosting EXCEPT !.id = "job-2", !.isListed = FALSE,
                        !.department = Some("Design"), !.location = Some("Busan")]

\* a listed posting without a department
BrokenPosting == [ListedPosting EXCEPT !.id = "job-3", !.department = Undefined]

\* an unlisted posting without a department
BrokenUnlistedPosting ==
  [ListedPosting EXCEPT !.id = "job-4", !.isListed = FALSE, !.department = Undefined]

RemotePosting ==
  [ListedPosting EXCEPT !.id = "job-5", !.isRemote = TRUE, !.title = Some("Designer"),
                        !.department = Some("Growth Marketing"),
                        !.location = Some("Shanghai, China")]

JobPool == {ListedPosting, UnlistedPosting, BrokenPosting, BrokenUnlistedPosting,
            RemotePosting}

RECURSIVE JobLists(_)
JobLists(n) ==
  IF n = 0 THEN {<<>>}
  ELSE JobLists(n - 1) \cup {Append(l, j) : l \in JobLists(n - 1), j \in JobPool}

ListFeed(jobs) == [kind |-> "http", status |-> 200, body |-> "list", jobs |-> jobs]

\* answers that are no job list: a failed call, error statuses (one of them
\* with a job list as its body), a body that is no JSON, JSON without jobs,
\* JSON whose jobs is not an array
FailedFeeds ==
  {[kind |-> "network"],
   [kind |-> "http", status |-> 404, body |-> "object", jobs |-> <<>>],
   [kind |-> "http", status |-> 503, body |-> "list", jobs |-> <<ListedPosting>>],
   [kind |-> "http", status |-> 200, body |-> "text", jobs |-> <<>>],
   [kind |-> "http", status |-> 200, body |-> "object", jobs |-> <<>>],
   [kind |-> "http", status |-> 200, body |-> "scalar", jobs |-> <<>>]}

Feeds == FailedFeeds \cup {ListFeed(l) : l \in JobLists(MaxJobs)}

\* single postings, each field varied on its own, missing values included
RawPostings ==
  {[ListedPosting EXCEPT !.department = d, !.location = l, !.title = t,
                         !.descriptionPlain = p, !.isRemote = r,
                         !.employmentType = e] :
     d \in {Undefined, Some("AI/ML"), Some("Quality Assurance"), Some(" growth marketing ")},
     l \in {Undefined, Some("Pangyo, Seongnam"), Some("Busan (Hybrid)"), Some("Shanghai, China")},
     t \in {Undefined, Some("Senior Engineer"), Some("Designer")},
     p \in {Undefined, Some(""), Some("We need a junior dev")},
     r \in BOOLEAN,
     e \in {Undefined, Some("FullTime"), Some("PartTime"), Some("constructor")}}

InitFeed(feeds) ==
  /\ pc = "idle"
  /\ reqPath = ""
  /\ reqAccept = <<>>
  /\ resp = NoResponse
  /\ hops = 0
  /\ nfHeaders = NoHeaders
  /\ nfLocale = ""
  /\ feed \in feeds
  /\ fetched = NotFetched
  /\ careers = NotMounted
  /\ seo = NoSeo
  /\ nav = NoNav
  /\ lazy = NotRendered
  /\ calls = NoCalls

InitJobs == InitFeed(Feeds)
InitTransform == InitFeed({ListFeed(<<j>>) : j \in RawPostings})

(***************************************************************************)
(* Postings for the field-by-field normalisations                          *)
(***************************************************************************)
\* department texts: table keys in several spellings, keyword hits, texts
\* hitting two keyword groups, texts hitting none
DepartmentTexts ==
  {"AI/ML", "ai/ml", " aiml ", "Engineering", "Product", "Design", "business",
   "Operations", "SALES", "Marketing", "Growth Marketing", "Quality Assurance",
   "AI Engineering", "Product Design", "UI Developer", "Machine Learning",
   "Maintenance", "Sales Product", "UX Research", "Operations Team", ""}

\* location texts: one keyword, two keywords of different groups, Korean
\* names, upper case, no keyword
LocationTexts ==
  {"Seoul", "BUSAN", "hybrid", "Pangyo, Seongnam", "Shanghai, China",
   "Busan / Seoul", "Hybrid (Seoul)", "Busan (Hybrid)", "Remote",
   SyllableSeoul, SyllableBusan, SyllableSeongnam, SyllablePangyo \o " Hybrid", ""}

\* employment types: the table keys, other spellings of them, other words,
\* names every JavaScript object inherits
EmploymentTexts ==
  {"FullTime", "Contract", "Intern", "PartTime", "fulltime", "Temporary", "",
   "constructor", "toString", "valueOf"}

ClassifiedPostings ==
  {[ListedPosting EXCEPT !.department = Some(d), !.isRemote = r,
                         !.location = l, !.employmentType = e] :
     d \in DepartmentTexts, r \in BOOLEAN,
     l \in {Some("Seoul"), Some("Busan (Hybrid)"), Undefined},
     e \in {Some("FullTime")}}
  \cup
  {[ListedPosting EXCEPT !.location = Some(l), !.isRemote = r,
                         !.employmentType = e] :
     l \in LocationTexts, r \in BOOLEAN,
     e \in {Some(t) : t \in EmploymentTexts} \cup {Undefined}}

InitClassify == InitFeed({ListFeed(<<j>>) : j \in ClassifiedPostings})

(***************************************************************************)
(* Postings for the experience inference                                   *)
(***************************************************************************)
\* titles: with and without a keyword, a keyword inside a longer word,
\* upper case, missing
ExperienceTitles ==
  {Undefined, Some("Senior Engineer"), Some("SENIOR Researcher"), Some("Designer"),
   Some("Junior Designer"), Some("Pyramid Architect"), Some("Data Entry Clerk"),
   Some(SyllableNewcomer \o " Engineer")}

\* descriptions: one keyword of each group, keywords of several groups,
\* year ranges, no keyword, empty, missing
ExperienceDescriptions ==
  {Undefined, Some(""), Some("We build robots."), Some("5+ years of C++"),
   Some("3-5" \o SyllableYear), Some("1-3" \o SyllableYear),
   Some("5" \o SyllableYear), Some("New Grad welcome"),
   Some(SyllableSenior), Some(SyllableMiddle), Some(SyllableJunior),
   Some("mid or junior"), Some("entry to mid level"), Some("5 years")}

ExperiencePostings ==
  {[ListedPosting EXCEPT !.title = t, !.descriptionPlain = d] :
     t \in ExperienceTitles, d \in ExperienceDescriptions}

InitExperience == InitFeed({ListFeed(<<j>>) : j \in ExperiencePostings})

(***************************************************************************)
(* Postings for the description summary                                    *)
(***************************************************************************)
MaxParts == 3

RECURSIVE Repeat(_, _)
Repeat(s, n) == IF n = 0 THEN "" ELSE s \o Repeat(s, n - 1)

\* 100 characters without a blank or a tag
Chunk == Repeat("abcdefghij", 10)

DescriptionParts ==
  {"<p>", "</p>", "<b>robots</b>", "We build ", ".", "  ", "<br/>", Chunk}

RECURSIVE DescriptionsOf(_)
DescriptionsOf(n) ==
  IF n = 0 THEN {""}
  ELSE DescriptionsOf(n - 1)
       \cup {d \o x : d \in DescriptionsOf(n - 1), x \in DescriptionParts}

DescriptionTexts ==
  DescriptionsOf(MaxParts)
  \cup {"<p>We build <b>robots</b>.</p>", "a < b", "1 < 2 > 1",
        Chunk \o Chunk, Chunk \o Chunk \o "k", Chunk \o " " \o Chunk \o " " \o Chunk}

\* the summary is taken from descriptionPlain, or from descriptionHtml when
\* descriptionPlain is missing or empty
DescribedPostings ==
  {[ListedPosting EXCEPT !.descriptionPlain = Some(d)] : d \in DescriptionTexts}
  \cup {[ListedPosting EXCEPT !.descriptionPlain = p, !.descriptionHtml = Some(d)] :
          p \in {Undefined, Some("")}, d \in DescriptionTexts}
  \cup {[ListedPosting EXCEPT !.descriptionPlain = Undefined,
                              !.descriptionHtml = Undefined]}

InitDescribe == InitFeed({ListFeed(<<j>>) : j \in DescribedPostings})

(***************************************************************************)
(* src/app/[lang]/careers/CareersClient.tsx                                *)
(***************************************************************************)
SyllableShanghai == "{49345}{54616}{51060}"

\* job.team || ""
TeamOf(job) == Template(OrElse(job.team, Some("")))

\* variant: the normalized department taken always
JobDept_Normalized(job) == job.department

\* job.originalDepartment || job.department
JobDept(job) == Template(OrElse(job.originalDepartment, Some(job.department)))

\* job.originalLocation || job.location
JobLoc(job) == Template(OrElse(job.originalLocation, Some(job.location)))

\* variant: the location text compared as written, not in lower case
JobCompany_CaseSensitive(job) ==
  IF \/ Includes(JobLoc(job), "shanghai")
     \/ Includes(JobLoc(job), SyllableShanghai)
     \/ Includes(JobLoc(job), "shanghai, china")
  THEN "company China" ELSE "company"

\* the company a job counts for, told from its location
JobCompany(job) ==
  IF \/ Includes(ToLowerCase(JobLoc(job)), "shanghai")
     \/ Includes(ToLowerCase(JobLoc(job)), SyllableShanghai)
     \/ Includes(ToLowerCase(JobLoc(job)), "shanghai, china")
  THEN "company China" ELSE "company"

\* `${job.title} ${job.description} ${job.team || ""}`.toLowerCase()
SearchableText(job) ==
  ToLowerCase(Template(job.title) \o " " \o job.description \o " " \o TeamOf(job))

NoFilters ==
  [searchQuery |-> "", selectedDepartments |-> {}, selectedWorkTypes |-> {},
   selectedLocations |-> {}, selectedCompanies |-> {}]

\* variant: the company filter left out
KeepsJob_NoCompanyFilter(job, f) ==
  /\ f.searchQuery # "" => Includes(SearchableText(job), ToLowerCase(f.searchQuery))
  /\ f.selectedDepartments # {} => JobDept(job) \in f.selectedDepartments
  /\ f.selectedWorkTypes # {} => job.type \in f.selectedWorkTypes
  /\ f.selectedLocations # {} => JobLoc(job) \in f.selectedLocations

\* the callback of jobs.filter in filteredJobs: false at the first active
\* filter the job fails, true at the end
KeepsJob(job, f) ==
  /\ f.searchQuery # "" => Includes(SearchableText(job), ToLowerCase(f.searchQuery))
  /\ f.selectedDepartments # {} => JobDept(job) \in f.selectedDepartments
  /\ f.selectedWorkTypes # {} => job.type \in f.selectedWorkTypes
  /\ f.selectedLocations # {} => JobLoc(job) \in f.selectedLocations
  /\ f.selectedCompanies # {} => JobCompany(job) \in f.selectedCompanies

\* jobs.filter(...): a new array, the jobs kept in the order of jobs
RECURSIVE FilterJobs(_, _)
FilterJobs(jobs, f) ==
  IF jobs = <<>> THEN <<>>
  ELSE (IF KeepsJob(Head(jobs), f) THEN <<Head(jobs)>> ELSE <<>>)
       \o FilterJobs(Tail(jobs), f)

\* new Date(publishedAt).getTime() for a YYYY-MM-DD date, counted in days
\* of a calendar with 31-day months (same order as the milliseconds)
PublishedTime(job) ==
  DigitsToNat(SubSeq(job.publishedAt, 1, 4)) * 372
  + DigitsToNat(SubSeq(job.publishedAt, 6, 7)) * 31
  + DigitsToNat(SubSeq(job.publishedAt, 9, 10))

\* one step of the stable sort, newest first
RECURSIVE InsertByDate(_, _)
InsertByDate(sorted, job) ==
  IF sorted = <<>> THEN <<job>>
  ELSE IF PublishedTime(Head(sorted)) >= PublishedTime(job)
       THEN <<Head(sorted)>> \o InsertByDate(Tail(sorted), job)
       ELSE <<job>> \o sorted

\* what jobs.sort((a, b) => time(b) - time(a)) leaves in the array
RECURSIVE SortByDate(_, _)
SortByDate(sorted, rest) ==
  IF rest = <<>> THEN sorted
  ELSE SortByDate(InsertByDate(sorted, Head(rest)), Tail(rest))

MaxFeatured == 5

\* .slice(0, 5)
FirstFeatured(jobs) ==
  SubSeq(jobs, 1, IF Len(jobs) < MaxFeatured THEN Len(jobs) ELSE MaxFeatured)

\* the jobs of one department among the filtered ones, in their order
RECURSIVE JobsOfDepartment(_, _)
JobsOfDepartment(jobs, dept) ==
  IF jobs = <<>> THEN <<>>
  ELSE (IF JobDept(Head(jobs)) = dept THEN <<Head(jobs)>> ELSE <<>>)
       \o JobsOfDepartment(Tail(jobs), dept)

\* jobsByDepartment: grouped[dept] for every department of a filtered job
GroupByDepartment(filtered) ==
  [dept \in {JobDept(filtered[k]) : k \in 1..Len(filtered)} |->
     JobsOfDepartment(filtered, dept)]

\* the memos that depend on the filter state, recomputed by a render
Render(c) ==
  [c EXCEPT !.filteredJobs = FilterJobs(c.jobs, c.filters),
            !.jobsByDepartment = GroupByDepartment(FilterJobs(c.jobs, c.filters))]

\* the first render with the jobs prop: featuredJobs sorts the prop array
\* itself (Array.prototype.sort works in place) and slices the result; the
\* memos further down then read the array as the sort left it
FirstRender(jobs) ==
  Render([phase |-> "mounted",
          jobs |-> SortByDate(<<>>, jobs),
          filters |-> NoFilters,
          featuredJobs |-> FirstFeatured(SortByDate(<<>>, jobs)),
          filteredJobs |-> <<>>,
          jobsByDepartment |-> <<>>])

\* newSelected.has(x) ? delete(x) : add(x)
Toggle(selected, x) == IF x \in selected THEN selected \ {x} ELSE selected \cup {x}

\* the checkboxes the filter panel shows
AvailableDepartments(jobs) == {JobDept(jobs[k]) : k \in 1..Len(jobs)}
AvailableTeams(jobs) == {TeamOf(jobs[k]) : k \in 1..Len(jobs)} \ {""}
AvailableWorkTypes(jobs) == {jobs[k].type : k \in 1..Len(jobs)}
AvailableLocations(jobs) == {JobLoc(jobs[k]) : k \in 1..Len(jobs)} \ {""}
AvailableCompanies == {"company", "company China"}

(***************************************************************************)
(* Job boards the careers page is rendered with                            *)
(***************************************************************************)
\* the oldest posting, first upstream
VisionPosting ==
  [ListedPosting EXCEPT !.id = "job-a", !.team = Some("Vision"),
                        !.publishedAt = "2025-01-15"]

\* a posting whose department is the empty string
ShanghaiPosting ==
  [ListedPosting EXCEPT !.id = "job-b", !.title = Some("Designer"),
                        !.department = Some(""), !.team = Undefined,
                        !.location = Some("Shanghai, China"),
                        !.employmentType = Some("Contract"),
                        !.descriptionPlain = Some("Design cars"),
                        !.publishedAt = "2025-03-01"]

\* a posting whose location is the empty string, published on the same day
PlatformPosting ==
  [ListedPosting EXCEPT !.id = "job-c", !.title = Some("Intern"),
                        !.department = Some("Engineering"),
                        !.team = Some("Platform"), !.location = Some(""),
                        !.employmentType = Some("Intern"),
                        !.descriptionPlain = Some("Vision tooling"),
                        !.publishedAt = "2025-03-01"]

\* boards whose checkboxes can all be combined: the oldest posting first,
\* two postings of the same day, no posting
CareerFeeds ==
  {ListFeed(<<VisionPosting, ShanghaiPosting>>),
   ListFeed(<<ShanghaiPosting, PlatformPosting>>),
   ListFeed(<<>>)}

\* what a visitor types into the search box
Queries == {"", "ROBOTS", "vision"}

InitCareers == InitFeed(CareerFeeds)

(***************************************************************************)
(* hreflang maps: src/get-dictionary.ts (sitemap), src/lib/metadata.ts,    *)
(* src/app/[lang]/layout.tsx                                               *)
(***************************************************************************)
\* process.env.NEXT_PUBLIC_BASE_URL || "https://company.ai"
BaseUrlOf(env) == Template(OrElse(env, Some("https://company.ai")))

\* routes of sitemap()
Routes == <<"", "/about", "/services", "/location", "/careers">>

\* one sitemap entry
SitemapEntry(baseUrl, locale, route) ==
  [url |-> baseUrl \o "/" \o locale \o route,
   changeFrequency |-> IF route = "" THEN "weekly"
                       ELSE IF route = "/services" THEN "weekly" ELSE "monthly",
   priority |-> IF route = "" THEN "1" ELSE IF route = "/contact" THEN "0.5" ELSE "0.8",
   languages |-> ("ko" :> baseUrl \o "/ko" \o route)
                 @@ ("en" :> baseUrl \o "/en" \o route)
                 @@ ("x-default" :> baseUrl \o "/" \o DefaultLocale \o route)]

\* sitemap(): for each locale, in order, an entry for each route, in order
Sitemap(baseUrl) ==
  [k \in 1..(Len(Locales) * Len(Routes)) |->
     SitemapEntry(baseUrl, Locales[((k - 1) \div Len(Routes)) + 1],
                  Routes[((k - 1) % Len(Routes)) + 1])]

\* alternates of generateMetadata(lang, dictionary, {path}) in lib/metadata
MetadataAlternates(baseUrl, lang, path) ==
  [canonical |-> baseUrl \o "/" \o lang \o path,
   languages |-> ("ko-KR" :> baseUrl \o "/ko" \o path)
                 @@ ("en-US" :> baseUrl \o "/en" \o path)
                 @@ ("x-default" :> baseUrl \o "/" \o DefaultLocale \o path)]

\* variant: x-default fixed to the default locale
LayoutAlternates_DefaultLocale(baseUrl, locale) ==
  [canonical |-> baseUrl \o "/" \o locale,
   languages |-> ("ko-KR" :> baseUrl \o "/ko")
                 @@ ("en-US" :> baseUrl \o "/en")
                 @@ ("x-default" :> baseUrl \o "/" \o DefaultLocale)]

\* alternates of the [lang] layout's generateMetadata
LayoutAlternates(baseUrl, locale) ==
  [canonical |-> baseUrl \o "/" \o locale,
   languages |-> ("ko-KR" :> baseUrl \o "/ko")
                 @@ ("en-US" :> baseUrl \o "/en")
                 @@ ("x-default" :> baseUrl \o "/" \o locale)]

\* the pages under [lang] whose generateMetadata calls lib/metadata, by the
\* path option they pass
PagePaths == {"", "/about", "/services", "/location", "/location/seoul", "/careers"}

\* the [lang] segment of a pathname, and what follows it
LangOf(pathname) == FilterNonEmpty(Split(pathname, "/"))[1]
RestOf(pathname) == SubSeq(pathname, Len(LangOf(pathname)) + 2, Len(pathname))

\* the metadata of a page under [lang]: the layout's, and the page's own
\* when the route has a page
PageSeo(s, pathname) ==
  [s EXCEPT !.layout = LayoutAlternates(BaseUrlOf(s.env), LangOf(pathname)),
            !.page = IF RestOf(pathname) \in PagePaths
                     THEN MetadataAlternates(BaseUrlOf(s.env), LangOf(pathname),
                                             RestOf(pathname))
                     ELSE NoAlternates]

\* pathnames visitors and crawlers ask for
SeoPaths == {"/", "/about", "/careers", "/ko", "/en", "/ko/about", "/en/about",
             "/ko/services", "/en/location", "/en/location/seoul", "/ko/careers",
             "/en/careers", "/en/missing"}

\* NEXT_PUBLIC_BASE_URL: not set, set to nothing, set
BaseUrlEnvs == {Undefined, Some(""), Some("https://example.org")}

InitSeo ==
  /\ pc = "request"
  /\ reqPath \in SeoPaths
  /\ reqAccept \in {<<>>, <<"en-US,en;q=0.9">>}
  /\ resp = NoResponse
  /\ hops = 0
  /\ nfHeaders = NoHeaders
  /\ nfLocale = ""
  /\ feed = NoFeed
  /\ fetched = NotFetched
  /\ careers = NotMounted
  /\ seo \in {[NoSeo EXCEPT !.env = e] : e \in BaseUrlEnvs}
  /\ nav = NoNav
  /\ lazy = NotRendered
  /\ calls = NoCalls

(***************************************************************************)
(* src/components/layout/LanguageSwitcher.tsx                              *)
(***************************************************************************)
MaxSwitches == 2

\* String.prototype.replace(pattern, by) with a string pattern: the first
\* occurrence is replaced, wherever it is
ReplaceFirst(s, pattern, by) ==
  IF ~Includes(s, pattern) THEN s
  ELSE LET i == CHOOSE i \in 1..Len(s) :
                  /\ StartsWith(SubSeq(s, i, Len(s)), pattern)
                  /\ \A j \in 1..(i - 1) : ~StartsWith(SubSeq(s, j, Len(s)), pattern)
       IN SubSeq(s, 1, i - 1) \o by \o SubSeq(s, i + Len(pattern), Len(s))

\* pathname.replace(`/${currentLang}`, "") || "/"
PathnameWithoutLocale(pathname, currentLang) ==
  Template(OrElse(Some(ReplaceFirst(pathname, "/" \o currentLang, "")), Some("/")))

\* the argument of router.push in switchLocale(locale)
SwitchTarget(pathname, currentLang, locale) ==
  "/" \o locale \o PathnameWithoutLocale(pathname, currentLang)

\* the app directory has a page for the pathname: /[lang] followed by the
\* path of one of the pages
RouteExists(pathname) ==
  /\ FilterNonEmpty(Split(pathname, "/")) # <<>>
  /\ RestOf(pathname) \in PagePaths \cup {"/"}

\* where the Header, and with it the LanguageSwitcher, is on screen: a page
\* under the [lang] layout, or the not-found page of a path without a page
SwitcherShown ==
  \/ pc = "page" /\ RouteExists(reqPath)
  \/ pc = "rendered" /\ ~RouteExists(reqPath)

\* the currentLang prop: the layout passes the [lang] segment, the
\* not-found page the locale it detected
CurrentLang == IF pc = "page" THEN LangOf(reqPath) ELSE nfLocale

\* pathnames for the language switch: pages, paths without a page, paths
\* the matcher excludes
SwitchPaths == {"/", "/about", "/ko", "/en/about", "/ko/careers", "/en/location/seoul",
                "/en/missing", "/ko/korea", "/api/x"}

InitSwitch == InitWith(SwitchPaths, {<<>>, <<"en-US,en;q=0.9">>})

(***************************************************************************)
(* src/components/common/LazySection.tsx                                   *)
(***************************************************************************)
MaxEvents == 3

\* values of the threshold and rootMargin props a parent may pass; the
\* first of each is the default
Thresholds == <<"0.1", "0.5">>
RootMargins == <<"50px", "0px">>

\* useState(false) twice, no observer yet, no entry delivered yet
FirstLazyRender(threshold, rootMargin) ==
  [phase |-> "mounted", isVisible |-> FALSE, hasLoaded |-> FALSE,
   threshold |-> threshold, rootMargin |-> rootMargin,
   observing |-> FALSE,           \* an observer observes the section
   capturedHasLoaded |-> FALSE,   \* hasLoaded as the observer's callback sees it
   effectDue |-> TRUE,            \* a dependency changed since the effect ran
   events |-> 0, intersected |-> FALSE, lastEntry |-> "none"]

\* the effect: the cleanup of the previous run unobserves, then a new
\* observer is created, whose callback closes over the hasLoaded of this
\* render, and observes the section
RunEffectOn(l) ==
  [l EXCEPT !.observing = TRUE, !.capturedHasLoaded = l.hasLoaded, !.effectDue = FALSE]

\* variant: the callback shows the content while the section intersects
ObserverCallback_Follows(l, isIntersecting) ==
  [l EXCEPT !.isVisible = isIntersecting,
            !.hasLoaded = l.hasLoaded \/ isIntersecting,
            !.effectDue = l.effectDue \/ (isIntersecting /\ ~l.hasLoaded)]

\* the observer's callback on one entry: setIsVisible(true), setHasLoaded(true)
\* and unobserve when the entry intersects and the captured hasLoaded is
\* false; the state change makes the effect due when hasLoaded changes
ObserverCallback(l, isIntersecting) ==
  IF isIntersecting /\ ~l.capturedHasLoaded
  THEN [l EXCEPT !.isVisible = TRUE, !.hasLoaded = TRUE, !.observing = FALSE,
                 !.effectDue = l.effectDue \/ ~l.hasLoaded]
  ELSE l

\* an entry is delivered: the callback runs, the entry is counted
Deliver(l, isIntersecting) ==
  [ObserverCallback(l, isIntersecting) EXCEPT
     !.events = l.events + 1,
     !.intersected = l.intersected \/ isIntersecting,
     !.lastEntry = IF isIntersecting THEN "in" ELSE "out"]

InitLazy == InitFeed({NoFeed})

(***************************************************************************)
(* Invocations of proxy (src/proxy.ts) and fetchJobs (src/lib/jobs-api.ts) *)
(* running side by side, one step at a time                                *)
(***************************************************************************)
MaxCalls == 2

Invocations == 1..MaxCalls

\* requests proxy is called with
ProxyInputs ==
  {[kind |-> "proxy", pathname |-> p, accept |-> a] :
     p \in {"/a", "/en/a"}, a \in {<<>>, <<"en-US,en;q=0.9">>}}

\* what the job board answers to one call of fetchJobs
FetchInputs ==
  {[kind |-> "fetchJobs", upstream |-> u] :
     u \in {ListFeed(<<ListedPosting>>), ListFeed(<<RemotePosting, BrokenPosting>>),
            [kind |-> "network"]}}

NoLocals == [written |-> FALSE]

\* variant: the values kept between the steps live in one module-level
\* place that every invocation uses
Frame_ModuleLevel(i) == 1

\* where invocation i keeps pathnameIsMissingLocale, locale, response: they
\* are consts of the function body, so each invocation has its own
Frame(i) == i

\* invocations before their first step
StartOf(inputs) ==
  [inv |-> [i \in Invocations |-> [input |-> inputs[i], pc |-> "start"]],
   locals |-> [i \in Invocations |-> NoLocals]]

InitCalls ==
  /\ pc = "idle"
  /\ reqPath = ""
  /\ reqAccept = <<>>
  /\ resp = NoResponse
  /\ hops = 0
  /\ nfHeaders = NoHeaders
  /\ nfLocale = ""
  /\ feed = NoFeed
  /\ fetched = NotFetched
  /\ careers = NotMounted
  /\ seo = NoSeo
  /\ nav = NoNav
  /\ lazy = NotRendered
  /\ calls \in {StartOf(inputs) :
                  inputs \in [Invocations -> ProxyInputs \cup FetchInputs]}

\* invocation i moves to position to, with result and locals as given
Advance(i, to, result, locals) ==
  calls' = [inv |-> [calls.inv EXCEPT ![i] = [input |-> calls.inv[i].input,
                                               pc |-> to, result |-> result]],
            locals |-> [calls.locals EXCEPT ![Frame(i)] = locals]]

(***************************************************************************)
(* Actions                                                                 *)
(***************************************************************************)
\* the routing layer hands a request to proxy when config.matcher matches
RunProxy ==
  /\ pc = "request"
  /\ MatcherMatches(reqPath)
  /\ resp' = ProxyResponse(reqPath, reqAccept)
  /\ pc' = "responded"
  /\ UNCHANGED <<reqPath, reqAccept, hops, nfHeaders, nfLocale, feed, fetched, careers, seo,
                 nav, lazy, calls>>

\* a request the matcher excludes never reaches proxy
Bypass ==
  /\ pc = "request"
  /\ ~MatcherMatches(reqPath)
  /\ resp' = [kind |-> "bypass", headers |-> NoHeaders]
  /\ pc' = "responded"
  /\ UNCHANGED <<reqPath, reqAccept, hops, nfHeaders, nfLocale, feed, fetched, careers, seo,
                 nav, lazy, calls>>

\* the client follows a redirect with a new request for its Location
FollowRedirect ==
  /\ pc = "responded"
  /\ resp.kind = "redirect"
  /\ hops < MaxHops
  /\ reqPath' = UrlPathname(HeadersGet(resp.headers, "Location")[1])
  /\ hops' = hops + 1
  /\ resp' = NoResponse
  /\ pc' = "request"
  /\ UNCHANGED <<reqAccept, nfHeaders, nfLocale, feed, fetched, careers, seo,
                 nav, lazy, calls>>

\* no route matches the path: the not-found page renders.  headers() hands
\* it the x-pathname entry when the runtime forwards what proxy wrote, no
\* such entry otherwise (always so for a request that bypassed proxy), or an
\* x-pathname the client sent with its request.
RenderNotFound ==
  /\ pc = "responded"
  /\ resp.kind \in {"next", "bypass"}
  /\ nfHeaders' \in {resp.headers, NoHeaders} \cup ClientHeaders
  /\ nfLocale' = NotFoundLocale(nfHeaders')
  /\ pc' = "rendered"
  /\ UNCHANGED <<reqPath, reqAccept, resp, hops, feed, fetched, careers, seo,
                 nav, lazy, calls>>

Next == RunProxy \/ Bypass \/ FollowRedirect \/ RenderNotFound

\* one call of fetchJobs(), from the request to the settled promise
FetchJobs ==
  /\ fetched.state = "pending"
  /\ feed.kind # "none"
  /\ fetched' = FetchJobsResult(feed)
  /\ UNCHANGED <<pc, reqPath, reqAccept, resp, hops, nfHeaders, nfLocale, feed,
                 careers, seo,
                 nav, lazy, calls>>

NextJobs == FetchJobs

\* the careers page hands the fetched jobs to CareersClient, which renders
MountCareers ==
  /\ fetched.state = "returned"
  /\ careers.phase = "none"
  /\ careers' = FirstRender(fetched.jobs)
  /\ UNCHANGED <<pc, reqPath, reqAccept, resp, hops, nfHeaders, nfLocale, feed, fetched, seo,
                 nav, lazy, calls>>

\* typing in the search box: setSearchQuery(e.target.value), then a render
SetSearchQuery ==
  /\ careers.phase = "mounted"
  /\ \E q \in Queries : careers' = Render([careers EXCEPT !.filters.searchQuery = q])
  /\ UNCHANGED <<pc, reqPath, reqAccept, resp, hops, nfHeaders, nfLocale, feed, fetched, seo,
                 nav, lazy, calls>>

\* a department checkbox or a team checkbox: both call toggleDepartmentFilter
\* with their own name (a team checkbox is shown once its department is
\* expanded, which any visitor can do at any time)
ToggleDepartmentFilter ==
  /\ careers.phase = "mounted"
  /\ \E dept \in AvailableDepartments(careers.jobs) \cup AvailableTeams(careers.jobs) :
       careers' = Render([careers EXCEPT !.filters.selectedDepartments = Toggle(@, dept)])
  /\ UNCHANGED <<pc, reqPath, reqAccept, resp, hops, nfHeaders, nfLocale, feed, fetched, seo,
                 nav, lazy, calls>>

ToggleWorkTypeFilter ==
  /\ careers.phase = "mounted"
  /\ \E type \in AvailableWorkTypes(careers.jobs) :
       careers' = Render([careers EXCEPT !.filters.selectedWorkTypes = Toggle(@, type)])
  /\ UNCHANGED <<pc, reqPath, reqAccept, resp, hops, nfHeaders, nfLocale, feed, fetched, seo,
                 nav, lazy, calls>>

ToggleLocationFilter ==
  /\ careers.phase = "mounted"
  /\ \E loc \in AvailableLocations(careers.jobs) :
       careers' = Render([careers EXCEPT !.filters.selectedLocations = Toggle(@, loc)])
  /\ UNCHANGED <<pc, reqPath, reqAccept, resp, hops, nfHeaders, nfLocale, feed, fetched, seo,
                 nav, lazy, calls>>

ToggleCompanyFilter ==
  /\ careers.phase = "mounted"
  /\ \E company \in AvailableCompanies :
       careers' = Render([careers EXCEPT !.filters.selectedCompanies = Toggle(@, company)])
  /\ UNCHANGED <<pc, reqPath, reqAccept, resp, hops, nfHeaders, nfLocale, feed, fetched, seo,
                 nav, lazy, calls>>

\* the reset button
HandleReset ==
  /\ careers.phase = "mounted"
  /\ careers' = Render([careers EXCEPT !.filters = NoFilters])
  /\ UNCHANGED <<pc, reqPath, reqAccept, resp, hops, nfHeaders, nfLocale, feed, fetched, seo,
                 nav, lazy, calls>>

NextCareers ==
  \/ FetchJobs \/ MountCareers \/ SetSearchQuery \/ ToggleDepartmentFilter
  \/ ToggleWorkTypeFilter \/ ToggleLocationFilter \/ ToggleCompanyFilter
  \/ HandleReset

\* a passed-through request renders its page: generateMetadata of the
\* [lang] layout and of the page
RenderMetadata ==
  /\ pc = "responded"
  /\ resp.kind = "next"
  /\ seo' = PageSeo(seo, reqPath)
  /\ pc' = "page"
  /\ UNCHANGED <<reqPath, reqAccept, resp, hops, nfHeaders, nfLocale, feed, fetched,
                 careers, nav, lazy, calls>>

\* the sitemap route is generated
GenerateSitemap ==
  /\ seo.sitemap = <<>>
  /\ seo' = [seo EXCEPT !.sitemap = Sitemap(BaseUrlOf(seo.env))]
  /\ UNCHANGED <<pc, reqPath, reqAccept, resp, hops, nfHeaders, nfLocale, feed, fetched,
                 careers, nav, lazy, calls>>

NextSeo == RunProxy \/ FollowRedirect \/ RenderMetadata \/ GenerateSitemap

\* a click on a language button: switchLocale(locale), and the navigation
\* router.push starts
SwitchLocale ==
  /\ SwitcherShown
  /\ nav.count < MaxSwitches
  /\ \E k \in 1..Len(Locales) :
       /\ nav' = [count |-> nav.count + 1, from |-> reqPath, currentLang |-> CurrentLang,
                  locale |-> Locales[k],
                  to |-> SwitchTarget(reqPath, CurrentLang, Locales[k])]
       /\ reqPath' = SwitchTarget(reqPath, CurrentLang, Locales[k])
  /\ pc' = "request"
  /\ resp' = NoResponse
  /\ hops' = 0
  /\ nfHeaders' = NoHeaders
  /\ nfLocale' = ""
  /\ UNCHANGED <<reqAccept, feed, fetched, careers, seo, lazy, calls>>

NextSwitch ==
  \/ RunProxy \/ Bypass \/ FollowRedirect \/ RenderNotFound \/ RenderMetadata
  \/ SwitchLocale

\* the section is rendered for the first time
MountLazy ==
  /\ lazy.phase = "none"
  /\ \E k \in 1..Len(Thresholds), m \in 1..Len(RootMargins) :
       lazy' = FirstLazyRender(Thresholds[k], RootMargins[m])
  /\ UNCHANGED <<pc, reqPath, reqAccept, resp, hops, nfHeaders, nfLocale, feed, fetched,
                 careers, seo, nav, calls>>

\* useEffect runs after a render in which threshold, rootMargin or
\* hasLoaded changed, and after the first render
RunEffect ==
  /\ lazy.phase = "mounted"
  /\ lazy.effectDue
  /\ lazy' = RunEffectOn(lazy)
  /\ UNCHANGED <<pc, reqPath, reqAccept, resp, hops, nfHeaders, nfLocale, feed, fetched,
                 careers, seo, nav, calls>>

\* the IntersectionObserver reports an entry for the section
ObserverEvent ==
  /\ lazy.phase = "mounted"
  /\ lazy.observing
  /\ lazy.events < MaxEvents
  /\ \E isIntersecting \in BOOLEAN : lazy' = Deliver(lazy, isIntersecting)
  /\ UNCHANGED <<pc, reqPath, reqAccept, resp, hops, nfHeaders, nfLocale, feed, fetched,
                 careers, seo, nav, calls>>

\* the parent renders the section with another threshold or rootMargin
ChangeProps ==
  /\ lazy.phase = "mounted"
  /\ \E k \in 1..Len(Thresholds), m \in 1..Len(RootMargins) :
       /\ <<Thresholds[k], RootMargins[m]>> # <<lazy.threshold, lazy.rootMargin>>
       /\ lazy' = [lazy EXCEPT !.threshold = Thresholds[k],
                               !.rootMargin = RootMargins[m], !.effectDue = TRUE]
  /\ UNCHANGED <<pc, reqPath, reqAccept, resp, hops, nfHeaders, nfLocale, feed, fetched,
                 careers, seo, nav, calls>>

\* the section leaves the page: the effect's cleanup unobserves
UnmountLazy ==
  /\ lazy.phase = "mounted"
  /\ lazy' = [lazy EXCEPT !.phase = "unmounted", !.observing = FALSE,
                          !.effectDue = FALSE]
  /\ UNCHANGED <<pc, reqPath, reqAccept, resp, hops, nfHeaders, nfLocale, feed, fetched,
                 careers, seo, nav, calls>>

NextLazy == MountLazy \/ RunEffect \/ ObserverEvent \/ ChangeProps \/ UnmountLazy

\* proxy, first statements: the pathname and the test for a locale prefix
ProxyTest ==
  /\ \E i \in Invocations :
       /\ calls.inv[i].input.kind = "proxy" /\ calls.inv[i].pc = "start"
       /\ Advance(i, "tested", NoResponse,
                  [written |-> TRUE,
                   missing |-> PathnameIsMissingLocale(calls.inv[i].input.pathname)])
  /\ UNCHANGED <<pc, reqPath, reqAccept, resp, hops, nfHeaders, nfLocale, feed, fetched,
                 careers, seo, nav, lazy>>

\* proxy, redirect branch: const locale = getLocale(request)
ProxyGetLocale ==
  /\ \E i \in Invocations :
       /\ calls.inv[i].input.kind = "proxy" /\ calls.inv[i].pc = "tested"
       /\ calls.locals[Frame(i)].missing
       /\ Advance(i, "detected", NoResponse,
                  [written |-> TRUE, missing |-> TRUE,
                   detected |-> GetLocale(calls.inv[i].input.accept)])
  /\ UNCHANGED <<pc, reqPath, reqAccept, resp, hops, nfHeaders, nfLocale, feed, fetched,
                 careers, seo, nav, lazy>>

\* proxy returns: the redirect to the detected locale, or the passthrough
\* with its headers
ProxyReturn ==
  /\ \E i \in Invocations :
       /\ calls.inv[i].input.kind = "proxy"
       /\ \/ /\ calls.inv[i].pc = "detected"
             /\ Advance(i, "done",
                        RedirectFor(calls.locals[Frame(i)].detected,
                                    calls.inv[i].input.pathname),
                        calls.locals[Frame(i)])
          \/ /\ calls.inv[i].pc = "tested"
             /\ ~calls.locals[Frame(i)].missing
             /\ Advance(i, "done",
                        NextResponse(calls.inv[i].input.pathname,
                                     RequestUrl(calls.inv[i].input.pathname)),
                        calls.locals[Frame(i)])
  /\ UNCHANGED <<pc, reqPath, reqAccept, resp, hops, nfHeaders, nfLocale, feed, fetched,
                 careers, seo, nav, lazy>>

\* fetchJobs up to its await: the call is made, and what the job board
\* answers is what the invocation continues with
FetchAwait ==
  /\ \E i \in Invocations :
       /\ calls.inv[i].input.kind = "fetchJobs" /\ calls.inv[i].pc = "start"
       /\ Advance(i, "answered", NotFetched,
                  [written |-> TRUE, response |-> calls.inv[i].input.upstream])
  /\ UNCHANGED <<pc, reqPath, reqAccept, resp, hops, nfHeaders, nfLocale, feed, fetched,
                 careers, seo, nav, lazy>>

\* fetchJobs after the await: status test, parsing, filter, map, catch
FetchReturn ==
  /\ \E i \in Invocations :
       /\ calls.inv[i].input.kind = "fetchJobs" /\ calls.inv[i].pc = "answered"
       /\ Advance(i, "done", CatchAll(FetchJobsTry(calls.locals[Frame(i)].response)),
                  calls.locals[Frame(i)])
  /\ UNCHANGED <<pc, reqPath, reqAccept, resp, hops, nfHeaders, nfLocale, feed, fetched,
                 careers, seo, nav, lazy>>

NextCalls == ProxyTest \/ ProxyGetLocale \/ ProxyReturn \/ FetchAwait \/ FetchReturn

Spec == Init /\ [][Next]_vars
SpecLocale == InitLocale /\ [][Next]_vars
SpecJobs == InitJobs /\ [][NextJobs]_vars
SpecTransform == InitTransform /\ [][NextJobs]_vars
SpecClassify == InitClassify /\ [][NextJobs]_vars
SpecDescribe == InitDescribe /\ [][NextJobs]_vars
SpecCareers == InitCareers /\ [][NextCareers]_vars
SpecSeo == InitSeo /\ [][NextSeo]_vars
SpecExperience == InitExperience /\ [][NextJobs]_vars
SpecSwitch == InitSwitch /\ [][NextSwitch]_vars
SpecLazy == InitLazy /\ [][NextLazy]_vars
SpecCalls == InitCalls /\ [][NextCalls]_vars

(***************************************************************************)
(* Properties of the locale resolver                                       *)
(***************************************************************************)
Responded == pc = "responded"
Processed == Responded /\ resp.kind \in {"next", "redirect", "error"}
LocationOf(r) == HeadersGet(r.headers, "Location")

\* the four literal prefixes of a path that carries a supported locale
HasLocalePrefix(p) ==
  StartsWith(p, "/ko/") \/ StartsWith(p, "/en/") \/ p = "/ko" \/ p = "/en"

\* C1: proxy answers with a passthrough exactly when the request path begins
\* with "/ko/" or "/en/" or is "/ko" or "/en" (case-sensitive), and the
\* x-pathname it records on a passthrough is the request path, unaltered.
C1_PassthroughIffLocalePrefix ==
  Processed =>
    /\ (resp.kind = "next") <=> HasLocalePrefix(reqPath)
    /\ HasLocalePrefix(reqPath) =>
         HeadersGet(resp.headers, "x-pathname") = <<reqPath>>
    /\ ~HasLocalePrefix(reqPath) => resp.kind = "redirect"

C1_Witness ==
  Responded /\ hops = 0 /\ reqPath = "/en/a" /\ resp.kind = "next"

\* C2: for a path without a locale prefix the redirect target is
\* "/" + L + path for a supported L, proxy passes that target through, and
\* no request is redirected a second time.
C2_OneRedirectHop ==
  /\ hops <= 1
  /\ (Responded /\ resp.kind = "redirect") =>
       /\ hops = 0
       /\ \E k \in 1..Len(Locales) :
            LocationOf(resp) = <<Origin \o "/" \o Locales[k] \o reqPath>>
  /\ (Responded /\ hops = 1) => resp.kind = "next"

C2_Witness ==
  Responded /\ hops = 1 /\ resp.kind = "next" /\ reqPath = "/en/KO/a"

\* an Accept-Language entry that offers no supported language: rejected by
\* the entry grammar, weighted with something that is no number, or naming
\* a language other than ko and en
EntryUnusable(e) ==
  \/ ~ParseLanguage(e, 0).ok
  \/ ParseLanguage(e, 0).q.nan
  \/ ToLowerCase(ParseLanguage(e, 0).prefix) \notin {"ko", "en"}

NoUsableLanguage(accept) ==
  \/ accept = <<>>
  \/ \A k \in 1..Len(Split(accept[1], ",")) :
       EntryUnusable(Trim(Split(accept[1], ",")[k]))

\* C3: with the Accept-Language header absent, empty, malformed or naming
\* no supported language, locale detection does not throw and the redirect
\* for an unprefixed path p goes to "/ko" + p.
C3_DefaultLocaleFallback ==
  (Processed /\ ~HasLocalePrefix(reqPath) /\ NoUsableLanguage(reqAccept)) =>
    /\ resp.kind = "redirect"
    /\ LocationOf(resp) = <<Origin \o "/ko" \o reqPath>>

C3_Witness ==
  /\ Responded /\ reqPath = "/a" /\ reqAccept = <<"fr, ko;q=x, e n">>
  /\ resp.kind = "redirect"

\* the header entries as parsed, a missing header counting as "*"
SentEntries ==
  ParseAcceptLanguage(IF reqAccept = <<>> THEN "*" ELSE reqAccept[1])

AllWeightsNumeric == \A k \in 1..Len(SentEntries) : ~SentEntries[k].q.nan

Redirected == Responded /\ hops = 0 /\ resp.kind = "redirect"
RedirectedTo(L) == LocationOf(resp) = <<Origin \o "/" \o L \o reqPath>>

\* how specifically entry e names locale L: the tag itself, a
\* region-qualified tag of the language, the wildcard, or not at all
MatchLevel(e, L) ==
  IF ToLowerCase(e.full) = L THEN 4
  ELSE IF ToLowerCase(e.prefix) = L THEN 2
  ELSE IF e.full = "*" THEN 0
  ELSE -1

BestLevel(L) ==
  IF \E k \in 1..Len(SentEntries) : MatchLevel(SentEntries[k], L) >= 0
  THEN CHOOSE n \in {0, 2, 4} :
         /\ \E k \in 1..Len(SentEntries) : MatchLevel(SentEntries[k], L) = n
         /\ \A k \in 1..Len(SentEntries) : MatchLevel(SentEntries[k], L) <= n
  ELSE -1

\* the quality of a supported locale: the largest weight among its most
\* specific matching entries, 0 when no entry matches
LocaleQuality(L) ==
  IF BestLevel(L) = -1 THEN 0
  ELSE LET W == {SentEntries[k].q.v :
                   k \in {j \in 1..Len(SentEntries) :
                            MatchLevel(SentEntries[j], L) = BestLevel(L)}}
       IN CHOOSE w \in W : \A x \in W : x <= w

\* What getLocale computes (stated beside C4): with numeric weights the
\* redirect goes to a supported locale of highest quality, a locale's
\* quality being the largest weight among its most specific matching entries
\* (exact tag, else region-qualified tag of the language, else "*"); the
\* default locale is used when no supported locale has a positive quality.
NegotiatedByMostSpecificEntry ==
  (Redirected /\ AllWeightsNumeric) =>
    \E L \in {"ko", "en"} :
      /\ RedirectedTo(L)
      /\ IF \A M \in {"ko", "en"} : LocaleQuality(M) <= 0
         THEN L = DefaultLocale
         ELSE /\ LocaleQuality(L) > 0
              /\ \A M \in {"ko", "en"} : LocaleQuality(M) <= LocaleQuality(L)

\* the acceptable entries (weight above 0) whose language, the part before
\* "-", is a supported locale: en-US matches en
PrefixMatching ==
  {k \in 1..Len(SentEntries) :
     /\ IsQuality(SentEntries[k])
     /\ ToLowerCase(SentEntries[k].prefix) \in {"ko", "en"}}

\* C4: when some weighted entry of the header matches a supported locale by
\* its language prefix, the redirect uses the locale of the matching entry
\* with the highest weight; the default is used only when no entry matches.
C4_HighestWeightedMatch ==
  (Redirected /\ reqAccept # <<>>) =>
    IF PrefixMatching = {} THEN RedirectedTo(DefaultLocale)
    ELSE \E k \in PrefixMatching :
           /\ RedirectedTo(ToLowerCase(SentEntries[k].prefix))
           /\ \A j \in PrefixMatching : SentEntries[j].q.v <= SentEntries[k].q.v

\* C5: every passthrough response carries the four security headers with
\* their fixed values, whatever the path and the Accept-Language header.
C5_SecurityHeaders ==
  resp.kind = "next" =>
    /\ HeadersGet(resp.headers, "X-Frame-Options") = <<"DENY">>
    /\ HeadersGet(resp.headers, "X-Content-Type-Options") = <<"nosniff">>
    /\ HeadersGet(resp.headers, "Referrer-Policy")
         = <<"strict-origin-when-cross-origin">>
    /\ HeadersGet(resp.headers, "Permissions-Policy")
         = <<"camera=(), microphone=(), geolocation=()">>

C5_Witness ==
  /\ Responded /\ resp.kind = "next" /\ hops = 1
  /\ reqAccept = <<"en-US,en;q=0.9">> /\ StartsWith(reqPath, "/en/")

\* the reserved prefixes, as the paths under them are written
UnderReservedPrefix(p) ==
  \/ StartsWith(p, "/api")
  \/ StartsWith(p, "/_next/static")
  \/ StartsWith(p, "/_next/image")
  \/ StartsWith(p, "/favicon.ico")

\* C6: a request path under /api, /_next/static, /_next/image or
\* /favicon.ico never reaches the locale resolver: it is neither redirected
\* to a locale-prefixed path nor passed through by proxy.
C6_ReservedPathsBypass ==
  UnderReservedPrefix(reqPath) =>
    /\ resp.kind \notin {"redirect", "next", "error"}
    /\ hops = 0

C6_Witness ==
  Responded /\ reqPath = "/_next/static/a" /\ resp.kind = "bypass"

\* the first non-empty "/"-separated segment of v is "ko" or "en"
FirstSegmentIsLocale(v) ==
  \E L \in {"ko", "en"} : \E n \in 0..Len(v) :
    /\ Len(v) >= n + 2
    /\ \A i \in 1..n : CharAt(v, i) = "/"
    /\ SubSeq(v, n + 1, n + 2) = L
    /\ (Len(v) = n + 2 \/ CharAt(v, n + 3) = "/")

Settled == fetched.state # "pending"

\* the three failures the claim names: the call throws, the status is not
\* 2xx, the body's jobs member is missing or no array
FeedFails ==
  \/ feed.kind = "network"
  \/ feed.kind = "http" /\ (feed.status < 200 \/ feed.status > 299)
  \/ feed.kind = "http" /\ feed.body \in {"object", "scalar"}

\* C8: when the network call throws, the status is non-2xx, or the body's
\* jobs field is missing or not an array, fetchJobs returns the empty list
\* and lets no exception escape.
C8_DegradeToEmpty ==
  (Settled /\ FeedFails) => fetched = [state |-> "returned", jobs |-> <<>>]

C8_Witness ==
  /\ Settled /\ feed.kind = "http" /\ feed.status = 503 /\ feed.body = "list"
  /\ fetched.jobs = <<>>

\* a posting that has every field the AshbyJob type requires
WellTyped(p) ==
  /\ p.title # Undefined /\ p.department # Undefined /\ p.location # Undefined
  /\ p.employmentType # Undefined
  /\ p.descriptionHtml # Undefined /\ p.descriptionPlain # Undefined

WellFormedFeed ==
  /\ feed.kind = "http" /\ feed.status \in 200..299 /\ feed.body = "list"
  /\ \A k \in 1..Len(feed.jobs) : WellTyped(feed.jobs[k])

ListedIndexes == {k \in 1..Len(feed.jobs) : feed.jobs[k].isListed}
\* position of upstream posting k among the listed ones
ListedRank(k) == Cardinality({j \in ListedIndexes : j <= k})

\* C9: on a well-formed response fetchJobs returns exactly one job per
\* listed posting, in upstream order, and no job of an unlisted posting.
C9_ListedInUpstreamOrder ==
  (Settled /\ WellFormedFeed) =>
    /\ fetched.state = "returned"
    /\ Len(fetched.jobs) = Cardinality(ListedIndexes)
    /\ \A k \in ListedIndexes :
         /\ fetched.jobs[ListedRank(k)].id = feed.jobs[k].id
         /\ fetched.jobs[ListedRank(k)].originalDepartment = feed.jobs[k].department
    /\ \A j \in 1..Len(fetched.jobs) : \A k \in 1..Len(feed.jobs) :
         ~feed.jobs[k].isListed => fetched.jobs[j].id # feed.jobs[k].id

C9_Witness ==
  /\ Settled /\ feed.kind = "http" /\ feed.body = "list"
  /\ feed.jobs = <<UnlistedPosting, RemotePosting, ListedPosting>>
  /\ Len(fetched.jobs) = 2
  /\ fetched.jobs[1].id = "job-5" /\ fetched.jobs[2].id = "job-1"

Departments == {"engineering", "ai", "product", "design", "business", "operations"}
NormalizedLocations == {"seoul", "busan", "remote", "hybrid"}

\* C10: the transform is total: on every raw posting of the feed, also one
\* whose department, location, title or description is missing, transformJob
\* does not throw and gives a job with a department and a location of the
\* fixed vocabularies, so every listed posting comes back from fetchJobs.
C10_TransformIsTotal ==
  (Settled /\ feed.kind = "http" /\ feed.status = 200 /\ feed.body = "list") =>
    \A k \in 1..Len(feed.jobs) :
      /\ ~TransformJob(feed.jobs[k]).threw
      /\ TransformJob(feed.jobs[k]).job.department \in Departments
      /\ TransformJob(feed.jobs[k]).job.location \in NormalizedLocations
      /\ feed.jobs[k].isListed =>
           \E j \in 1..Len(fetched.jobs) : fetched.jobs[j].id = feed.jobs[k].id

\* What transformJob does on postings of the declared type (stated beside
\* C10): it returns a job of the fixed vocabularies.
TransformTotalOnTypedPostings ==
  (Settled /\ WellFormedFeed) =>
    \A k \in ListedIndexes :
      /\ ~TransformJob(feed.jobs[k]).threw
      /\ TransformJob(feed.jobs[k]).job.department \in Departments
      /\ TransformJob(feed.jobs[k]).job.location \in NormalizedLocations

(***************************************************************************)
(* Properties of the field normalisations                                  *)
(***************************************************************************)
OnePosting == feed.kind = "http" /\ feed.body = "list" /\ Len(feed.jobs) = 1
\* fetchJobs returned the job of the feed's single posting
Normalized == Settled /\ OnePosting /\ Len(fetched.jobs) = 1

\* C11: a posting with isRemote true gives workType remote and location
\* remote whatever its location says, also when it says Seoul, Busan or
\* hybrid or nothing; a posting with isRemote false gives workType hybrid.
C11_RemoteOverridesLocation ==
  /\ (Settled /\ OnePosting /\ feed.jobs[1].isRemote) => Len(fetched.jobs) = 1
  /\ Normalized =>
       IF feed.jobs[1].isRemote
       THEN fetched.jobs[1].workType = "remote" /\ fetched.jobs[1].location = "remote"
       ELSE fetched.jobs[1].workType = "hybrid"

C11_Witness ==
  /\ Normalized /\ feed.jobs[1].isRemote
  /\ feed.jobs[1].location = Some("Busan (Hybrid)")
  /\ fetched.jobs[1].location = "remote" /\ fetched.jobs[1].workType = "remote"

\* the reference of the department normalisation, on the trimmed text in
\* lower case
DepartmentReference(d) ==
  CASE d \in {"engineering"} -> "engineering"
    [] d \in {"ai", "ai/ml", "aiml"} -> "ai"
    [] d \in {"product"} -> "product"
    [] d \in {"design"} -> "design"
    [] d \in {"business", "sales", "marketing"} -> "business"
    [] d \in {"operations"} -> "operations"
    [] OTHER ->
       IF \E w \in {"engineering", "software", "developer"} : Includes(d, w)
       THEN "engineering"
       ELSE IF \E w \in {"ai", "ml", "machine learning"} : Includes(d, w) THEN "ai"
       ELSE IF Includes(d, "product") THEN "product"
       ELSE IF \E w \in {"design", "ux", "ui"} : Includes(d, w) THEN "design"
       ELSE IF \E w \in {"business", "sales", "marketing"} : Includes(d, w)
            THEN "business"
       ELSE "engineering"

\* C12: the normalized department is the reference's: the table value when
\* the trimmed, case-folded text is a table key, else the first keyword group
\* in the fixed order, else engineering; and originalDepartment is the raw
\* text.
C12_DepartmentReference ==
  Normalized =>
    /\ fetched.jobs[1].department
         = DepartmentReference(Trim(ToLowerCase(feed.jobs[1].department[1])))
    /\ fetched.jobs[1].originalDepartment = feed.jobs[1].department
    /\ feed.jobs[1].department = Some("AI/ML") => fetched.jobs[1].department = "ai"
    /\ feed.jobs[1].department = Some("Growth Marketing")
         => fetched.jobs[1].department = "business"
    /\ feed.jobs[1].department = Some("Quality Assurance")
         => fetched.jobs[1].department = "engineering"

C12_Witness ==
  /\ Normalized /\ feed.jobs[1].department = Some("AI Engineering")
  /\ fetched.jobs[1].department = "engineering"
  /\ fetched.jobs[1].originalDepartment = Some("AI Engineering")

\* the reference of the location normalisation, on the text in lower case
LocationReference(l) ==
  IF \E w \in {"seoul", SyllableSeoul, SyllableSeongnam, "seongnam",
               SyllablePangyo, "pangyo"} : Includes(l, w) THEN "seoul"
  ELSE IF \E w \in {"busan", SyllableBusan} : Includes(l, w) THEN "busan"
  ELSE IF Includes(l, "hybrid") THEN "hybrid"
  ELSE "seoul"

\* C13: for a posting with isRemote false the normalized location is the
\* first match in the order Seoul names, Busan names, "hybrid", else seoul,
\* by case-insensitive substring; originalLocation is the raw text.
C13_LocationReference ==
  (Normalized /\ ~feed.jobs[1].isRemote) =>
    /\ fetched.jobs[1].location
         = LocationReference(ToLowerCase(feed.jobs[1].location[1]))
    /\ fetched.jobs[1].originalLocation = feed.jobs[1].location
    /\ feed.jobs[1].location = Some("Pangyo, Seongnam")
         => fetched.jobs[1].location = "seoul"
    /\ feed.jobs[1].location = Some("Shanghai, China")
         => fetched.jobs[1].location = "seoul"

C13_Witness ==
  /\ Normalized /\ ~feed.jobs[1].isRemote
  /\ feed.jobs[1].location = Some("Busan / Seoul")
  /\ fetched.jobs[1].location = "seoul"
  /\ fetched.jobs[1].originalLocation = Some("Busan / Seoul")

EmploymentTypes == {"fullTime", "contract", "intern"}

\* C14: the normalized employment type is fullTime, contract or intern:
\* FullTime, Contract, Intern and PartTime give fullTime, contract, intern
\* and contract, and every other string gives fullTime.
C14_EmploymentTypeTotal ==
  (Normalized /\ feed.jobs[1].employmentType # Undefined) =>
    /\ fetched.jobs[1].type \in EmploymentTypes
    /\ fetched.jobs[1].type =
         (CASE feed.jobs[1].employmentType = Some("FullTime") -> "fullTime"
            [] feed.jobs[1].employmentType = Some("Contract") -> "contract"
            [] feed.jobs[1].employmentType = Some("Intern") -> "intern"
            [] feed.jobs[1].employmentType = Some("PartTime") -> "contract"
            [] OTHER -> "fullTime")

\* C15: the description of a normalized job has at most 200 characters,
\* also when the stripped text was longer and got cut.
C15_DescriptionAtMost200 ==
  Normalized => Len(fetched.jobs[1].description) <= 200

\* s with every tag taken out and nothing put in its place
RECURSIVE DeleteTags(_)
DeleteTags(s) ==
  IF IndexOfChar(FromFirstOpen(s), ">") = 0 THEN s
  ELSE SubSeq(s, 1, IndexOfChar(s, "<") - 1)
       \o DeleteTags(SubSeq(FromFirstOpen(s),
                            IndexOfChar(FromFirstOpen(s), ">") + 1,
                            Len(FromFirstOpen(s))))

\* the text the summary is made from
DescriptionSource ==
  Template(OrElse(feed.jobs[1].descriptionPlain, feed.jobs[1].descriptionHtml))

\* C16: removing the tags leaves the text around them as it was, the
\* characters on both sides of a tag ending up adjacent: the summary of a
\* text that needs no cut is the text without its tags, blanks collapsed and
\* trimmed, and "<p>We build <b>robots</b>.</p>" gives "We build robots.".
C16_TagsRemovedInPlace ==
  (Normalized /\ OrElse(feed.jobs[1].descriptionPlain,
                        feed.jobs[1].descriptionHtml) # Undefined) =>
    /\ Len(Trim(CollapseSpaces(DeleteTags(DescriptionSource)))) <= 200
         => fetched.jobs[1].description
              = Trim(CollapseSpaces(DeleteTags(DescriptionSource)))
    /\ DescriptionSource = "<p>We build <b>robots</b>.</p>"
         => fetched.jobs[1].description = "We build robots."

(***************************************************************************)
(* Properties of the careers page                                          *)
(***************************************************************************)
Mounted == careers.phase = "mounted"

ElementsOf(q) == {q[k] : k \in 1..Len(q)}

\* the department a job is filtered by: the upstream text, or the normalized
\* department when that text is empty or missing
DepartmentKey(job) ==
  IF job.originalDepartment \in {Undefined, Some("")} THEN job.department
  ELSE job.originalDepartment[1]

LocationKey(job) ==
  IF job.originalLocation \in {Undefined, Some("")} THEN job.location
  ELSE job.originalLocation[1]

CompanyKey(job) ==
  IF \E w \in {"shanghai", SyllableShanghai} : Includes(ToLowerCase(LocationKey(job)), w)
  THEN "company China" ELSE "company"

\* the text the search looks at: title, description and team
SearchedText(job) ==
  Template(job.title) \o " " \o job.description \o " "
  \o (IF job.team = Undefined THEN "" ELSE job.team[1])

\* every active dimension of the filter state f accepts the job
SatisfiesAll(job, f) ==
  /\ f.searchQuery = ""
       \/ Includes(ToLowerCase(SearchedText(job)), ToLowerCase(f.searchQuery))
  /\ f.selectedDepartments = {} \/ DepartmentKey(job) \in f.selectedDepartments
  /\ f.selectedWorkTypes = {} \/ job.type \in f.selectedWorkTypes
  /\ f.selectedLocations = {} \/ LocationKey(job) \in f.selectedLocations
  /\ f.selectedCompanies = {} \/ CompanyKey(job) \in f.selectedCompanies

\* C17: a job is in the filtered list exactly when every active dimension
\* (query, departments, employment types, locations, companies) accepts it;
\* a dimension with no selection, or an empty query, excludes nothing, and
\* with no filter active the filtered list is the whole job list.
C17_FilterIsConjunction ==
  Mounted =>
    /\ ElementsOf(careers.filteredJobs)
         = {job \in ElementsOf(careers.jobs) : SatisfiesAll(job, careers.filters)}
    /\ careers.filters = NoFilters =>
         /\ careers.filteredJobs = careers.jobs
         /\ ElementsOf(careers.filteredJobs) = ElementsOf(fetched.jobs)

C17_Witness ==
  /\ Mounted
  /\ careers.filters.searchQuery = "vision"
  /\ careers.filters.selectedDepartments = {"Engineering", "engineering"}
  /\ careers.filters.selectedWorkTypes = {"intern"}
  /\ careers.filters.selectedLocations = {"seoul"}
  /\ careers.filters.selectedCompanies = {"company"}
  /\ Len(careers.jobs) = 2 /\ Len(careers.filteredJobs) = 1
  /\ careers.filteredJobs[1].id = "job-c"

OnlyDepartments ==
  /\ Mounted /\ careers.filters.selectedDepartments # {}
  /\ careers.filters = [NoFilters EXCEPT !.selectedDepartments =
                                           careers.filters.selectedDepartments]

OnlyLocations ==
  /\ Mounted /\ careers.filters.selectedLocations # {}
  /\ careers.filters = [NoFilters EXCEPT !.selectedLocations =
                                           careers.filters.selectedLocations]

\* C18 as stated: with only a department selection S active the filtered
\* jobs are exactly those whose originalDepartment, the upstream text, is in
\* S; with only a location selection, those whose originalLocation is in it.
C18_FiltersOnOriginalText ==
  /\ OnlyDepartments =>
       ElementsOf(careers.filteredJobs)
         = {job \in ElementsOf(careers.jobs) :
              \E d \in careers.filters.selectedDepartments :
                job.originalDepartment = Some(d)}
  /\ OnlyLocations =>
       ElementsOf(careers.filteredJobs)
         = {job \in ElementsOf(careers.jobs) :
              \E l \in careers.filters.selectedLocations :
                job.originalLocation = Some(l)}

\* C18: with only a department selection S active the filtered jobs are
\* exactly those whose originalDepartment, or normalized department when the
\* originalDepartment is empty or missing, is in S; with only a location
\* selection, those whose originalLocation, or normalized location when the
\* originalLocation is empty or missing, is in it.
C18_FiltersOnOriginalOrNormalized ==
  /\ OnlyDepartments =>
       ElementsOf(careers.filteredJobs)
         = {job \in ElementsOf(careers.jobs) :
              DepartmentKey(job) \in careers.filters.selectedDepartments}
  /\ OnlyLocations =>
       ElementsOf(careers.filteredJobs)
         = {job \in ElementsOf(careers.jobs) :
              LocationKey(job) \in careers.filters.selectedLocations}

C18_Witness ==
  /\ OnlyDepartments
  /\ careers.filters.selectedDepartments = {"AI/ML"}
  /\ Len(careers.jobs) = 2 /\ Len(careers.filteredJobs) = 1
  /\ careers.filteredJobs[1].originalDepartment = Some("AI/ML")
  /\ careers.filteredJobs[1].department = "ai"

\* C19: the featured view and the by-department view only read the jobs
\* they are given: whatever was rendered and whatever filters were changed,
\* the job list CareersClient was given holds the jobs fetchJobs returned,
\* in that order.
C19_BaseListUntouched ==
  Mounted => careers.jobs = fetched.jobs

(***************************************************************************)
(* Properties of the hreflang maps                                         *)
(***************************************************************************)
\* the map has an entry for every supported locale, pointing at that
\* locale's version of the page, and its x-default is the ko version
HreflangComplete(languages, baseUrl, path) ==
  /\ "x-default" \in DOMAIN languages
  /\ languages["x-default"] = baseUrl \o "/ko" \o path
  /\ \A k \in 1..Len(Locales) :
       \E key \in DOMAIN languages :
         /\ SubSeq(key, 1, 2) = Locales[k]
         /\ languages[key] = baseUrl \o "/" \o Locales[k] \o path

PageRendered == pc = "page"

\* What sitemap() and lib/metadata generate (stated beside C20): complete
\* maps whose x-default is the ko version, for every locale rendered.
HreflangOfSitemapAndPages ==
  /\ \A k \in 1..Len(seo.sitemap) :
       \E r \in 1..Len(Routes) :
         HreflangComplete(seo.sitemap[k].languages, BaseUrlOf(seo.env), Routes[r])
  /\ (PageRendered /\ seo.page # NoAlternates) =>
       HreflangComplete(seo.page.languages, BaseUrlOf(seo.env), RestOf(reqPath))

\* C20: every hreflang map the site generates (sitemap entries, the pages'
\* metadata, the [lang] layout's metadata) has, for every locale rendered,
\* an entry for each supported locale and an x-default that is the ko
\* version of the page.
C20_HreflangDefaultsToKo ==
  /\ HreflangOfSitemapAndPages
  /\ Len(seo.sitemap) \in {0, Len(Locales) * Len(Routes)}
  /\ PageRendered => HreflangComplete(seo.layout.languages, BaseUrlOf(seo.env), "")

(***************************************************************************)
(* Properties of the experience inference                                  *)
(***************************************************************************)
\* the keyword groups in their fixed order
ExperienceGroups ==
  <<[level |-> "senior",
     words |-> {"senior", SyllableSenior, "5" \o SyllableYear, "5+"}],
    [level |-> "mid", words |-> {"mid", SyllableMiddle, "3-5" \o SyllableYear}],
    [level |-> "junior",
     words |-> {"junior", SyllableJunior, "1-3" \o SyllableYear}],
    [level |-> "entry", words |-> {"entry", SyllableNewcomer, "new grad"}]>>

\* the groups with a keyword in the text
MatchingGroups(text) ==
  {g \in 1..Len(ExperienceGroups) :
     \E w \in ExperienceGroups[g].words : Includes(text, w)}

\* the text inferExperience scans
ExperienceText(p) == ToLowerCase(Template(p.title) \o " " \o Template(p.descriptionPlain))

\* the level of the earliest matching group; "" when none matches
ExperienceReference(text) ==
  IF MatchingGroups(text) = {} THEN ""
  ELSE ExperienceGroups[CHOOSE g \in MatchingGroups(text) :
                          \A h \in MatchingGroups(text) : g <= h].level

\* C22: when a keyword group matches the lowered title + description, the
\* experience is the level of the earliest matching group in the order
\* senior, mid, junior, entry, also when several groups match.
C22_EarliestGroupWins ==
  (Settled /\ OnePosting /\ MatchingGroups(ExperienceText(feed.jobs[1])) # {}) =>
    /\ Len(fetched.jobs) = 1
    /\ fetched.jobs[1].experience = ExperienceReference(ExperienceText(feed.jobs[1]))

C22_Witness ==
  /\ Normalized
  /\ feed.jobs[1].title = Some("Junior Designer")
  /\ feed.jobs[1].descriptionPlain = Some("entry to mid level")
  /\ MatchingGroups(ExperienceText(feed.jobs[1])) = {2, 3, 4}
  /\ fetched.jobs[1].experience = "mid"

\* C30: when no keyword group matches the title + description, the title
\* does not contain "senior" and a job that is produced has experience mid:
\* the last line of inferExperience never gives senior.
C30_FallbackIsMid ==
  (Settled /\ OnePosting /\ MatchingGroups(ExperienceText(feed.jobs[1])) = {}) =>
    /\ ~Includes(ToLowerCase(Template(feed.jobs[1].title)), "senior")
    /\ Normalized => fetched.jobs[1].experience = "mid"

C30_Witness ==
  /\ Normalized
  /\ feed.jobs[1].title = Some("Designer")
  /\ feed.jobs[1].descriptionPlain = Some("5 years")
  /\ MatchingGroups(ExperienceText(feed.jobs[1])) = {}
  /\ fetched.jobs[1].experience = "mid"

\* the filtered jobs if the company selection were S and the rest as it is
WithCompanies(S) ==
  ElementsOf(FilterJobs(careers.jobs, [careers.filters EXCEPT !.selectedCompanies = S]))

\* C23: every job is in exactly one company bucket, "company China" when
\* its original location (or normalized location when the original is
\* empty) contains a Shanghai name in lower case, else "company"; selecting
\* both companies filters like selecting none, and the two single
\* selections give disjoint results that together cover it.
C23_CompaniesPartition ==
  Mounted =>
    /\ \A job \in ElementsOf(careers.jobs) : JobCompany(job) = CompanyKey(job)
    /\ ElementsOf(careers.filteredJobs) = WithCompanies(careers.filters.selectedCompanies)
    /\ WithCompanies({"company", "company China"}) = WithCompanies({})
    /\ WithCompanies({"company"}) \cap WithCompanies({"company China"}) = {}
    /\ WithCompanies({"company"}) \cup WithCompanies({"company China"})
         = WithCompanies({})

C23_Witness ==
  /\ Mounted
  /\ careers.filters = [NoFilters EXCEPT !.selectedCompanies =
                                           {"company", "company China"}]
  /\ Len(careers.filteredJobs) = 2
  /\ {CompanyKey(job) : job \in ElementsOf(careers.filteredJobs)}
       = {"company", "company China"}

\* C26: when the only active filter is the checkbox of one team T, the
\* filtered jobs are exactly the jobs whose team is T.
C26_TeamCheckboxFiltersByTeam ==
  Mounted =>
    \A team \in AvailableTeams(careers.jobs) :
      careers.filters = [NoFilters EXCEPT !.selectedDepartments = {team}] =>
        ElementsOf(careers.filteredJobs)
          = {job \in ElementsOf(careers.jobs) : job.team = Some(team)}

(***************************************************************************)
(* Further properties of the locale resolver                               *)
(***************************************************************************)
\* API routes, the framework's static and image assets, the favicon
ReservedRoute(p) ==
  \/ p = "/api" \/ StartsWith(p, "/api/")
  \/ p = "/_next/static" \/ StartsWith(p, "/_next/static/")
  \/ p = "/_next/image" \/ StartsWith(p, "/_next/image/")
  \/ p = "/favicon.ico"

SecurityHeaderNames ==
  {"X-Frame-Options", "X-Content-Type-Options", "Referrer-Policy", "Permissions-Policy"}

ResolverHeaderNames == SecurityHeaderNames \cup {"x-pathname", "x-url"}

\* C28: every request path that is no API route, static or image asset or
\* the favicon, also one that only begins with the letters of a reserved
\* prefix, is answered by proxy: redirected to a locale-prefixed path, or
\* passed through with the security headers.
C28_OnlyReservedRoutesSkipped ==
  (Responded /\ ~ReservedRoute(reqPath)) =>
    \/ /\ resp.kind = "redirect"
       /\ HasLocalePrefix(UrlPathname(LocationOf(resp)[1]))
    \/ /\ resp.kind = "next"
       /\ \A n \in SecurityHeaderNames : HeadersHas(resp.headers, n)

\* C29: a redirect of proxy has none of the four security headers, no
\* x-pathname and no x-url; a passthrough has all six; so the first answer
\* to a path without a locale prefix has none of them.
C29_RedirectWithoutResolverHeaders ==
  /\ (Responded /\ resp.kind = "redirect") =>
       \A n \in ResolverHeaderNames : ~HeadersHas(resp.headers, n)
  /\ (Responded /\ resp.kind = "next") =>
       \A n \in ResolverHeaderNames : HeadersHas(resp.headers, n)
  /\ (Processed /\ hops = 0 /\ ~HasLocalePrefix(reqPath)) =>
       /\ resp.kind # "next"
       /\ \A n \in ResolverHeaderNames : ~HeadersHas(resp.headers, n)

C29_Witness ==
  /\ Responded /\ hops = 0 /\ reqPath = "/a/ko"
  /\ resp.kind = "redirect"
  /\ DOMAIN resp.headers = {"location"}

(***************************************************************************)
(* Further properties of fetchJobs                                         *)
(***************************************************************************)
\* a posting transformJob cannot take: no department, no location on a
\* posting that is not remote, or no title and no experience keyword
Malformed(p) ==
  \/ p.department = Undefined
  \/ ~p.isRemote /\ p.location = Undefined
  \/ p.title = Undefined /\ MatchingGroups(ExperienceText(p)) = {}

JobListFeed == feed.kind = "http" /\ feed.status \in 200..299 /\ feed.body = "list"

\* C27: fetchJobs returns no partial list: the result is empty or has one
\* job for every listed posting; one listed posting whose transform throws
\* makes the whole result empty; a malformed posting that is not listed
\* changes nothing.
C27_AllOrNothing ==
  (Settled /\ JobListFeed) =>
    /\ fetched.state = "returned"
    /\ Len(fetched.jobs) \in {0, Cardinality(ListedIndexes)}
    /\ (\E k \in ListedIndexes : Malformed(feed.jobs[k])) => fetched.jobs = <<>>
    /\ (\A k \in ListedIndexes : ~Malformed(feed.jobs[k])) =>
         /\ Len(fetched.jobs) = Cardinality(ListedIndexes)
         /\ \A k \in ListedIndexes : fetched.jobs[ListedRank(k)].id = feed.jobs[k].id

C27_Witness ==
  /\ Settled /\ JobListFeed
  /\ feed.jobs = <<ListedPosting, BrokenPosting, RemotePosting>>
  /\ fetched.jobs = <<>>

(***************************************************************************)
(* Properties of the language switch                                       *)
(***************************************************************************)
Switched == nav.count > 0

\* the path begins with one locale segment, and only one
OneLocaleSegment(p) ==
  LET segments == FilterNonEmpty(Split(p, "/"))
  IN /\ Len(segments) >= 1
     /\ \E k \in 1..Len(Locales) : segments[1] = Locales[k]
     /\ Len(segments) >= 2 => \A k \in 1..Len(Locales) : segments[2] # Locales[k]

\* the current path is "/" + cur + rest, rest empty or beginning with "/"
OnOwnLocalePath ==
  \/ nav.from = "/" \o nav.currentLang
  \/ StartsWith(nav.from, "/" \o nav.currentLang \o "/")

RestOfCurrent == SubSeq(nav.from, Len(nav.currentLang) + 2, Len(nav.from))

\* What switchLocale does on a path that begins with the current language
\* (stated beside C24): the language segment is exchanged, the rest kept,
\* and proxy passes the new path through.
SwitchOnOwnLocalePath ==
  (Switched /\ OnOwnLocalePath) =>
    /\ nav.to = "/" \o nav.locale \o (IF RestOfCurrent = "" THEN "/" ELSE RestOfCurrent)
    /\ HasLocalePrefix(nav.to)
    /\ (Responded /\ hops = 0) => resp.kind = "next"

\* C24: a language switch from "/" + cur + rest to locale L goes to
\* "/" + L + rest ("/" + L + "/" when rest is empty), which proxy passes
\* through without redirect; and on every pathname the switcher is shown
\* on, the target begins with exactly one locale segment.
C24_SwitchKeepsPage ==
  /\ SwitchOnOwnLocalePath
  /\ Switched => OneLocaleSegment(nav.to)

(***************************************************************************)
(* Properties of LazySection                                               *)
(***************************************************************************)
LazyRendered == lazy.phase # "none"

\* the content is on screen exactly when an intersecting entry has been
\* delivered, and isVisible and hasLoaded agree
ShownSinceFirstIntersection ==
  LazyRendered =>
    /\ lazy.isVisible = lazy.intersected
    /\ lazy.isVisible = lazy.hasLoaded

\* no step takes the content off the screen again
NeverHidden == [][(LazyRendered /\ lazy.isVisible) => lazy'.isVisible]_vars

\* C25: the content is not rendered before the first intersecting entry,
\* is rendered from it on, and no later entry (intersecting or not) or
\* effect run un-renders it; isVisible and hasLoaded are equal throughout.
C25_OneWayLatch == []ShownSinceFirstIntersection /\ NeverHidden

C25_Witness ==
  /\ lazy.phase = "mounted" /\ lazy.isVisible /\ lazy.hasLoaded
  /\ lazy.observing /\ lazy.capturedHasLoaded
  /\ lazy.lastEntry = "out" /\ lazy.events = MaxEvents

(***************************************************************************)
(* Properties of invocations running side by side                          *)
(***************************************************************************)
CallsStarted == calls # NoCalls

\* what an invocation gives when it runs alone
AloneOutcome(input) ==
  IF input.kind = "proxy" THEN ProxyResponse(input.pathname, input.accept)
  ELSE FetchJobsResult(input.upstream)

====
